---- MODULE Spec2Model ----
(***************************************************************************)
(* A model of the generation workflow of the story illustrator.  The       *)
(* repository holds three iterations of the App component:                 *)
(*   "first"  : src/App.tsx lines 22-227   (GenerationPhase, no extraction)*)
(*   "phase"  : src/project.md lines 879-1161 (the ten-phase machine)      *)
(*   "wizard" : src/App.tsx lines 262-541  (AppView + OperationStatus)     *)
(* The variable app says which iteration a behaviour is a run of; every    *)
(* action belongs to one iteration.                                        *)
(*                                                                         *)
(* A React state setter is a write of the variable.  An async handler runs *)
(* atomically up to its next await; what it still has to do, with the      *)
(* values its closure captured when it was invoked, is a record of tasks.  *)
(* Every task holds exactly one AIGateway call that has not settled yet.   *)
(* loadingMessage and stylePreferences never decide a branch and are left  *)
(* out.  An optional boolean that is undefined is FALSE.                   *)
(*                                                                         *)
(* Each user action exists at two levels.  X(TRUE) fires only where the    *)
(* components render the control and leave it enabled (the disabled=,      *)
(* readOnly= and conditional-rendering expressions of the forms);          *)
(* X(FALSE) invokes the handler in any state, which is the contract of the *)
(* workflow operation itself, the presentation layer being external.       *)
(***************************************************************************)
EXTENDS Integers, Sequences, FiniteSets, TLC

VARIABLES app, storyText, characters, scenes, currentPhase, error,
          userHasInteractedWithChars, currentView, operationStatus,
          isLoadingStory, isLoadingImages, apiKey,
          tasks, idCounter, sceneIdCounter, last

vars == <<app, storyText, characters, scenes, currentPhase, error,
          userHasInteractedWithChars, currentView, operationStatus,
          isLoadingStory, isLoadingImages, apiKey,
          tasks, idCounter, sceneIdCounter, last>>

(***************************************************************************)
(* Bounds of the model.                                                    *)
(***************************************************************************)
\* characters created in one run (generateId never repeats an id)
MaxCharIds == 2
\* scenes materialized in one run
MaxSceneIds == 2
\* scenes in one deconstruction response
MaxScenes == 2
\* characters in one extraction response
MaxExtracted == 2
\* AIGateway calls in flight at once
MaxTasks == 2
\* invocations of a handler in a state where its control is not offered
MaxForced == 1
\* characters in one extraction response where responses exceed MAX_CHARACTERS,
\* and the characters created in such a run
MaxExtractedWide == 6
MaxCharIdsWide == 6
\* scenes in one deconstruction response where the order of three scenes is
\* followed, and the scenes materialized in such a run
MaxScenesWide == 3
MaxSceneIdsWide == 4

MAX_CHARACTERS == 5

(***************************************************************************)
(* Values.                                                                 *)
(***************************************************************************)
Undefined == "undefined"
Null == "null"

StoryTexts == {"", " ", "Once"}
CharNames == {"", " ", "Arin"}
Appearances == {"", "tall"}
DesignUrls == {"data:image/jpeg;base64,XXXX"}
SceneUrls == {"data:image/png;base64,ZZZZ"}
\* the message of a raised error; every error geminiService throws has one
Messages == {"quota"}

\* a trim that removes nothing
Trim_nothing(s) == s

\* String.prototype.trim on the strings of the model
Trim(s) == IF s = " " THEN "" ELSE s

\* truthiness of an optional string
Truthy(x) == x # Undefined /\ x # Null /\ x # ""

\* err.message || 'Unknown error'
MessageOr(m, dflt) == IF m = "" THEN dflt ELSE m

Map(s, F(_)) == [k \in 1..Len(s) |-> F(s[k])]
Some(s, P(_)) == \E k \in 1..Len(s) : P(s[k])
Every(s, P(_)) == \A k \in 1..Len(s) : P(s[k])
Ids(s) == {s[k].id : k \in 1..Len(s)}
RemoveAt(s, i) == [k \in 1..(Len(s) - 1) |-> IF k < i THEN s[k] ELSE s[k + 1]]
\* Array.prototype.findIndex, 0 for -1
FindIndex(s, P(_)) == IF Some(s, P) THEN CHOOSE k \in 1..Len(s) : P(s[k]) /\ \A j \in 1..(k - 1) : ~P(s[j]) ELSE 0

\* String.prototype.indexOf(ch, from) for a single character, 0 for -1
IndexOf(s, ch, from) ==
    IF \E k \in from..Len(s) : SubSeq(s, k, k) = ch
    THEN CHOOSE k \in from..Len(s) : SubSeq(s, k, k) = ch /\ \A j \in from..(k - 1) : SubSeq(s, j, j) # ch
    ELSE 0

\* the string p stands in s at position i
StartsAt(s, p, i) == i + Len(p) - 1 <= Len(s) /\ SubSeq(s, i, i + Len(p) - 1) = p

\* where /^data:image\/[^;]+;base64,/ finds its semicolon in dataUrl, 0 when
\* the expression does not match
DataUrlSemicolon(dataUrl) ==
    IF /\ StartsAt(dataUrl, "data:image/", 1)
       /\ IndexOf(dataUrl, ";", 12) >= 13
       /\ StartsAt(dataUrl, ";base64,", IndexOf(dataUrl, ";", 12))
    THEN IndexOf(dataUrl, ";", 12)
    ELSE 0

\* a conversion that returns the data URL as it is
getBase64FromDataUrl_whole(dataUrl) == dataUrl

\* getBase64FromDataUrl: match[1] of /^data:image\/[^;]+;base64,(.+)/ or null
getBase64FromDataUrl(dataUrl) ==
    IF DataUrlSemicolon(dataUrl) # 0 /\ DataUrlSemicolon(dataUrl) + 8 <= Len(dataUrl)
    THEN SubSeq(dataUrl, DataUrlSemicolon(dataUrl) + 8, Len(dataUrl))
    ELSE Null

\* mimeMatch[1] of dataUrl.match(/^data:(image\/[^;]+);base64,/), null without a match
MimeMatch(dataUrl) ==
    IF DataUrlSemicolon(dataUrl) # 0
    THEN SubSeq(dataUrl, 6, DataUrlSemicolon(dataUrl) - 1)
    ELSE Null

BoundedSeq(S, n) == UNION {[1..k -> S] : k \in 0..n}

\* what an AIGateway call settles with: a value, or a raised error's message
Returned(values) == [ok : {TRUE}, value : values]
Raised == [ok : {FALSE}, value : Messages]

NoTask == [kind |-> "none", charId |-> 0, queue |-> <<>>, chars |-> <<>>, initialScenes |-> <<>>,
           updated |-> <<>>, i |-> 0, phase |-> ""]

Room == Len(tasks) < MaxTasks

\* the state a handler was invoked in, kept to state what the handler did
Snapshot(op, arg) ==
    [op |-> op, arg |-> arg, currentPhase |-> currentPhase, characters |-> characters,
     scenes |-> scenes, storyText |-> storyText, ntasks |-> Len(tasks),
     operationStatus |-> operationStatus, currentView |-> currentView, error |-> error,
     sel |-> {}, response |-> <<>>, raised |-> FALSE, references |-> <<>>, forced |-> last.forced]

\* a handler invoked with ui = FALSE in a state where its control is not
\* offered is a forced invocation; after the MaxForced-th of a run the model
\* follows only the completions of the calls in flight
UserMayAct == last.forced < MaxForced
Invoked(ui, offered, snapshot) ==
    IF ui \/ offered THEN snapshot ELSE [snapshot EXCEPT !.forced = @ + 1]

\* the same record for an edit of an input field, which no property reads back
Edited(op, arg) ==
    [op |-> op, arg |-> arg, currentPhase |-> "", characters |-> <<>>,
     scenes |-> <<>>, storyText |-> "", ntasks |-> 0,
     operationStatus |-> "", currentView |-> "", error |-> Null, sel |-> {}, response |-> <<>>, raised |-> FALSE,
     references |-> <<>>, forced |-> last.forced]

\* a new character that is flagged as extracted
Phase_NewCharacter_flagged(id) ==
    [id |-> id, name |-> "", appearance |-> "", isAiExtracted |-> TRUE,
     generatedDesignUrl |-> Undefined, approvedDesignUrl |-> Undefined,
     isDesignLoading |-> FALSE, designError |-> Undefined]

(***************************************************************************)
(* The phase machine (src/project.md, App.tsx with StoryInputForm.tsx and  *)
(* CharacterInput.tsx of the same iteration).                              *)
(***************************************************************************)
Phase_NewCharacter(id) ==
    [id |-> id, name |-> "", appearance |-> "", isAiExtracted |-> FALSE,
     generatedDesignUrl |-> Undefined, approvedDesignUrl |-> Undefined,
     isDesignLoading |-> FALSE, designError |-> Undefined]

Phase_Init ==
    /\ app = "phase"
    /\ storyText = ""
    /\ characters = <<>>
    /\ scenes = <<>>
    /\ \/ currentPhase = "AWAITING_STORY_INPUT" /\ error = Null
       \/ currentPhase = "ERROR" /\ error = "API Key is missing"
    /\ userHasInteractedWithChars = FALSE
    /\ currentView = "none"
    /\ operationStatus = "none"
    /\ tasks = <<>>
    /\ isLoadingStory = FALSE
    /\ isLoadingImages = FALSE
    /\ apiKey = TRUE
    /\ idCounter = 1
    /\ sceneIdCounter = 1
    /\ last = [op |-> "init", arg |-> 0, currentPhase |-> currentPhase, characters |-> <<>>,
               scenes |-> <<>>, storyText |-> "", ntasks |-> 0,
               operationStatus |-> "none", currentView |-> "none", error |-> error, sel |-> {},
               response |-> <<>>, raised |-> FALSE, references |-> <<>>, forced |-> 0]

Phase_Frame == UNCHANGED <<app, currentView, operationStatus, isLoadingStory, isLoadingImages, apiKey>>

\* StoryInputForm: isLoading
Phase_isLoading ==
    currentPhase \notin {"IDLE", "COMPLETE", "ERROR", "AWAITING_STORY_INPUT",
                         "AWAITING_USER_CHARACTER_CONFIRMATION",
                         "AWAITING_CHARACTER_DESIGN_APPROVAL"}

\* StoryInputForm: the textarea's onChange
Phase_setStoryText(ui) ==
    /\ app = "phase" /\ UserMayAct
    /\ ui => ~Phase_isLoading
    /\ \E v \in StoryTexts :
        /\ v # storyText
        /\ storyText' = v
        /\ last' = Edited("setStoryText", 0)
    /\ UNCHANGED <<characters, scenes, currentPhase, error, userHasInteractedWithChars,
                   tasks, idCounter, sceneIdCounter>>
    /\ Phase_Frame

\* a form that never believes a design is being generated
Phase_isGeneratingAnyCharacterDesigns_never == FALSE

\* StoryInputForm: isGeneratingAnyCharacterDesigns
Phase_isGeneratingAnyCharacterDesigns ==
    currentPhase = "GENERATING_CHARACTER_DESIGNS" \/ Some(characters, LAMBDA c : c.isDesignLoading)

\* CharacterInput: isReadOnly
Phase_isReadOnly(c) ==
    \/ Truthy(c.approvedDesignUrl)
    \/ currentPhase \in {"GENERATING_CHARACTER_DESIGNS", "DECONSTRUCTING_STORY", "GENERATING_SCENE_IMAGES"}
    \/ c.isDesignLoading

\* CharacterInput: canGenerateThisDesign
Phase_canGenerateThisDesign(c) ==
    /\ Trim(c.name) # ""
    /\ ~Truthy(c.approvedDesignUrl)
    /\ ~c.isDesignLoading
    /\ ~Phase_isGeneratingAnyCharacterDesigns

\* StoryInputForm: canGenerateCharacterDesignsGlobally
Phase_canGenerateCharacterDesignsGlobally ==
    /\ Len(characters) > 0
    /\ Some(characters, LAMBDA c : Trim(c.name) # "" /\ ~Truthy(c.approvedDesignUrl))
    /\ currentPhase \in {"AWAITING_USER_CHARACTER_CONFIRMATION", "AWAITING_CHARACTER_DESIGN_APPROVAL"}

\* StoryInputForm: canGenerateStoryboard
Phase_canGenerateStoryboard ==
    /\ Trim(storyText) # ""
    /\ \/ Len(characters) = 0
       \/ Every(characters, LAMBDA c : Trim(c.name) # "" => Truthy(c.approvedDesignUrl))
    /\ currentPhase \in {"AWAITING_CHARACTER_DESIGN_APPROVAL", "COMPLETE", "IDLE"}

\* StoryInputForm: addCharacter, behind the "Add Character Manually" button
Phase_AddsCharacter(ui, maxIds) ==
    /\ app = "phase" /\ UserMayAct
    /\ ui => (Len(characters) < MAX_CHARACTERS /\ ~Phase_isLoading)
    /\ userHasInteractedWithChars' = TRUE
    /\ IF Len(characters) < MAX_CHARACTERS
       THEN /\ idCounter <= maxIds
            /\ characters' = Append(characters, Phase_NewCharacter(idCounter))
            /\ idCounter' = idCounter + 1
       ELSE UNCHANGED <<characters, idCounter>>
    /\ last' = Edited("addCharacter", 0)
    /\ UNCHANGED <<storyText, scenes, currentPhase, error, tasks, sceneIdCounter>>
    /\ Phase_Frame

Phase_addCharacter(ui) == Phase_AddsCharacter(ui, MaxCharIds)

\* CharacterInput.handleChange and StoryInputForm.updateCharacter: one text
\* field of the character at index k receives the value v
Phase_updateCharacter(ui) ==
    /\ app = "phase" /\ UserMayAct
    /\ \E k \in 1..Len(characters) :
        /\ ui => ~Phase_isReadOnly(characters[k])
        /\ \/ \E v \in CharNames \ {characters[k].name} :
                characters' = [characters EXCEPT ![k] = [@ EXCEPT !.name = v, !.isAiExtracted = FALSE]]
           \/ \E v \in Appearances \ {characters[k].appearance} :
                characters' = [characters EXCEPT ![k] = [@ EXCEPT !.appearance = v, !.isAiExtracted = FALSE]]
        /\ last' = Edited("updateCharacter", characters[k].id)
    /\ userHasInteractedWithChars' = TRUE
    /\ UNCHANGED <<storyText, scenes, currentPhase, error, tasks, idCounter, sceneIdCounter>>
    /\ Phase_Frame

\* StoryInputForm.removeCharacter, behind the card's trash button
Phase_removeCharacter(ui) ==
    /\ app = "phase" /\ UserMayAct
    /\ \E k \in 1..Len(characters) :
        /\ ui => ~(Phase_isReadOnly(characters[k]) \/ Phase_isGeneratingAnyCharacterDesigns)
        /\ characters' = SelectSeq(characters, LAMBDA c : c.id # characters[k].id)
        /\ last' = Edited("removeCharacter", characters[k].id)
    /\ userHasInteractedWithChars' = TRUE
    /\ UNCHANGED <<storyText, scenes, currentPhase, error, tasks, idCounter, sceneIdCounter>>
    /\ Phase_Frame

\* an approval that copies the generated design and leaves it in place
Phase_ApproveIn_keepsGenerated(chars, characterId) ==
    Map(chars, LAMBDA c :
        IF c.id = characterId /\ Truthy(c.generatedDesignUrl)
        THEN [c EXCEPT !.approvedDesignUrl = c.generatedDesignUrl,
                       !.designError = Undefined, !.isDesignLoading = FALSE]
        ELSE c)

\* an approval that does not ask whether there is a generated design
Phase_ApproveIn_unguarded(chars, characterId) ==
    Map(chars, LAMBDA c :
        IF c.id = characterId
        THEN [c EXCEPT !.approvedDesignUrl = c.generatedDesignUrl, !.generatedDesignUrl = Undefined,
                       !.designError = Undefined, !.isDesignLoading = FALSE]
        ELSE c)

\* the setCharacters updater of handleApproveCharacterDesign
Phase_ApproveIn(chars, characterId) ==
    Map(chars, LAMBDA c :
        IF c.id = characterId /\ Truthy(c.generatedDesignUrl)
        THEN [c EXCEPT !.approvedDesignUrl = c.generatedDesignUrl, !.generatedDesignUrl = Undefined,
                       !.designError = Undefined, !.isDesignLoading = FALSE]
        ELSE c)

\* CharacterInput: the "Approve Design" button of the card of characterId
Phase_offersApprove(characterId) ==
    \E k \in 1..Len(characters) :
        /\ characters[k].id = characterId
        /\ Truthy(characters[k].generatedDesignUrl)
        /\ ~Truthy(characters[k].approvedDesignUrl)
        /\ ~characters[k].isDesignLoading
        /\ ~Phase_isGeneratingAnyCharacterDesigns

\* handleApproveCharacterDesign(characterId); id 0 is an id no character has
Phase_handleApproveCharacterDesign(ui) ==
    /\ app = "phase" /\ UserMayAct
    /\ \E characterId \in IF ui THEN Ids(characters) ELSE Ids(characters) \cup {0} :
        /\ ui => Phase_offersApprove(characterId)
        /\ characters' = Phase_ApproveIn(characters, characterId)
        /\ last' = Invoked(ui, Phase_offersApprove(characterId), Snapshot("approveCharacterDesign", characterId))
    /\ UNCHANGED <<storyText, scenes, currentPhase, error, userHasInteractedWithChars,
                   tasks, idCounter, sceneIdCounter>>
    /\ Phase_Frame

\* an error handler that surfaces the message and leaves the phase alone
Phase_handleError_keepPhase(message, phaseToSetOnError) ==
    /\ error' = message
    /\ UNCHANGED currentPhase

\* an error handler for which every failure is fatal
Phase_handleError_fatal(message, phaseToSetOnError) ==
    /\ error' = message
    /\ currentPhase' = "ERROR"

\* an error handler that sets the phase and surfaces nothing
Phase_handleError_silent(message, phaseToSetOnError) ==
    /\ error' = Null
    /\ currentPhase' = phaseToSetOnError

\* handleError(message, phaseToSetOnError)
Phase_handleError(message, phaseToSetOnError) ==
    /\ error' = message
    /\ currentPhase' = phaseToSetOnError

\* StoryInputForm: the buttons "Let AI Suggest Characters from Story" and
\* "Confirm AI Suggested Characters"
Phase_offersExtractOrConfirm ==
    \/ /\ ~userHasInteractedWithChars /\ Len(characters) = 0
       /\ ~(Trim(storyText) = "" \/ Phase_isLoading \/ currentPhase = "EXTRACTING_CHARACTERS")
    \/ /\ Len(characters) > 0 /\ currentPhase = "AWAITING_USER_CHARACTER_CONFIRMATION"
       /\ ~userHasInteractedWithChars /\ ~Phase_isLoading

\* a test that never finds characters in the registry
Phase_actsAsConfirmation_never(chars) == FALSE

\* handleExtractOrConfirmCharacters: "characters.length > 0", the test that
\* makes the handler a confirmation step
Phase_actsAsConfirmation(chars) == Len(chars) > 0

\* handleExtractOrConfirmCharacters up to its await
Phase_handleExtractOrConfirmCharacters(ui) ==
    /\ app = "phase" /\ UserMayAct
    /\ ui => Phase_offersExtractOrConfirm
    /\ IF currentPhase = "ERROR" \/ Trim(storyText) = ""
       THEN /\ error' = IF Trim(storyText) = "" THEN "Please enter a story first." ELSE error
            /\ UNCHANGED <<currentPhase, tasks>>
       ELSE IF Phase_actsAsConfirmation(characters)
       THEN /\ error' = Null
            /\ currentPhase' = "AWAITING_CHARACTER_DESIGN_APPROVAL"
            /\ UNCHANGED tasks
       ELSE /\ Room
            /\ error' = Null
            /\ currentPhase' = "EXTRACTING_CHARACTERS"
            /\ tasks' = Append(tasks, [NoTask EXCEPT !.kind = "extractCharacters"])
    /\ last' = Invoked(ui, Phase_offersExtractOrConfirm, Snapshot("extractOrConfirmCharacters", 0))
    /\ UNCHANGED <<storyText, characters, scenes, userHasInteractedWithChars, idCounter, sceneIdCounter>>
    /\ Phase_Frame

\* the filter of handleGenerateAllCharacterDesigns
Phase_charsToDesign(chars) ==
    SelectSeq(chars, LAMBDA c : Trim(c.name) # "" /\ ~Truthy(c.approvedDesignUrl) /\ ~c.isDesignLoading)

\* the setCharacters updater that marks the characters whose ids are in sel
Phase_MarkLoading(chars, sel) ==
    Map(chars, LAMBDA c :
        IF c.id \in sel
        THEN [c EXCEPT !.isDesignLoading = TRUE, !.designError = Undefined, !.generatedDesignUrl = Undefined]
        ELSE c)

\* StoryInputForm: the "Generate All Pending Character Designs" button
Phase_offersGenerateAll ==
    /\ currentPhase \in {"AWAITING_USER_CHARACTER_CONFIRMATION", "AWAITING_CHARACTER_DESIGN_APPROVAL"}
    /\ Some(characters, LAMBDA c : Trim(c.name) # "")
    /\ ~(~Phase_canGenerateCharacterDesignsGlobally \/ Phase_isLoading \/ Phase_isGeneratingAnyCharacterDesigns)

\* handleGenerateAllCharacterDesigns up to its first await
Phase_handleGenerateAllCharacterDesigns(ui) ==
    /\ app = "phase" /\ UserMayAct
    /\ ui => Phase_offersGenerateAll
    /\ IF currentPhase = "ERROR"
       THEN UNCHANGED <<error, currentPhase, characters, tasks>>
       ELSE IF Phase_charsToDesign(characters) = <<>>
       THEN /\ error' = Null
            /\ currentPhase' = "AWAITING_CHARACTER_DESIGN_APPROVAL"
            /\ UNCHANGED <<characters, tasks>>
       ELSE /\ Room
            /\ error' = Null
            /\ currentPhase' = "GENERATING_CHARACTER_DESIGNS"
            /\ characters' = Phase_MarkLoading(characters, Ids(Phase_charsToDesign(characters)))
            /\ tasks' = Append(tasks, [NoTask EXCEPT !.kind = "designAll", !.queue = Phase_charsToDesign(characters),
                                                     !.i = 1])
    /\ last' = Invoked(ui, Phase_offersGenerateAll, Snapshot("generateAllCharacterDesigns", 0))
    /\ UNCHANGED <<storyText, scenes, userHasInteractedWithChars, idCounter, sceneIdCounter>>
    /\ Phase_Frame

\* an early return that does not look at the loading flag
Phase_SingleDesignRefused_ignoresLoading(chars, characterId) ==
    LET k == FindIndex(chars, LAMBDA c : c.id = characterId)
    IN  \/ k = 0
        \/ Trim(chars[k].name) = ""
        \/ Truthy(chars[k].approvedDesignUrl)

\* the early return of handleGenerateSingleCharacterDesign
Phase_SingleDesignRefused(chars, characterId) ==
    LET k == FindIndex(chars, LAMBDA c : c.id = characterId)
    IN  \/ k = 0
        \/ Trim(chars[k].name) = ""
        \/ chars[k].isDesignLoading
        \/ Truthy(chars[k].approvedDesignUrl)

\* CharacterInput: the "Generate Design" button of the card of characterId
Phase_offersGenerateSingle(characterId) ==
    \E k \in 1..Len(characters) :
        /\ characters[k].id = characterId
        /\ ~Truthy(characters[k].approvedDesignUrl)
        /\ Phase_canGenerateThisDesign(characters[k])

\* handleGenerateSingleCharacterDesign(characterId) up to its await
Phase_handleGenerateSingleCharacterDesign(ui) ==
    /\ app = "phase" /\ UserMayAct
    /\ \E characterId \in IF ui THEN Ids(characters) ELSE Ids(characters) \cup {0} :
        /\ ui => Phase_offersGenerateSingle(characterId)
        /\ IF Phase_SingleDesignRefused(characters, characterId)
           THEN UNCHANGED <<error, currentPhase, characters, tasks>>
           ELSE /\ Room
                /\ error' = Null
                /\ currentPhase' = "GENERATING_CHARACTER_DESIGNS"
                /\ characters' = Phase_MarkLoading(characters, {characterId})
                /\ tasks' = Append(tasks, [NoTask EXCEPT !.kind = "designSingle", !.charId = characterId,
                                                         !.chars = characters])
        /\ last' = Invoked(ui, Phase_offersGenerateSingle(characterId),
                            Snapshot("generateSingleCharacterDesign", characterId))
    /\ UNCHANGED <<storyText, scenes, userHasInteractedWithChars, idCounter, sceneIdCounter>>
    /\ Phase_Frame

\* a weaker gate, which stops only at a generated design that awaits approval
Phase_GateFails_pendingOnly(chars) ==
    Some(chars, LAMBDA c : Trim(c.name) # "" /\ Truthy(c.generatedDesignUrl) /\ ~Truthy(c.approvedDesignUrl))

\* namedCharacters.length > 0 && unapprovedChars.length > 0 in handleGenerateVisualStory
Phase_GateFails(chars) ==
    Some(chars, LAMBDA c : Trim(c.name) # "" /\ ~Truthy(c.approvedDesignUrl))

\* a button that is enabled in every state
Phase_offersGenerateVisualStory_always == TRUE

\* StoryInputForm: the "Generate Visual Storyboard" button
Phase_offersGenerateVisualStory == ~(~Phase_canGenerateStoryboard \/ Phase_isLoading)

\* handleGenerateVisualStory up to its first await
Phase_handleGenerateVisualStory(ui) ==
    /\ app = "phase" /\ UserMayAct
    /\ ui => Phase_offersGenerateVisualStory
    /\ IF currentPhase = "ERROR"
       THEN UNCHANGED <<error, currentPhase, scenes, tasks>>
       ELSE IF Trim(storyText) = ""
       THEN /\ Phase_handleError("Please enter a story.", "AWAITING_STORY_INPUT")
            /\ UNCHANGED <<scenes, tasks>>
       ELSE IF Phase_GateFails(characters)
       THEN /\ Phase_handleError("Please approve designs for all named characters",
                                 "AWAITING_CHARACTER_DESIGN_APPROVAL")
            /\ UNCHANGED <<scenes, tasks>>
       ELSE /\ Room
            /\ error' = Null
            /\ scenes' = <<>>
            /\ currentPhase' = "DECONSTRUCTING_STORY"
            /\ tasks' = Append(tasks, [NoTask EXCEPT !.kind = "deconstructStory", !.chars = characters])
    /\ last' = Invoked(ui, Phase_offersGenerateVisualStory, Snapshot("generateVisualStory", 0))
    /\ UNCHANGED <<storyText, characters, userHasInteractedWithChars, idCounter, sceneIdCounter>>
    /\ Phase_Frame

\* what extractCharactersFromStory can resolve to
ExtractedInfos == {[name |-> "Arin", appearance |-> "tall"]}
ExtractionResponses == BoundedSeq(ExtractedInfos, MaxExtracted)

\* the same with a second character and responses longer than MAX_CHARACTERS
ExtractedInfosWide == ExtractedInfos \cup {[name |-> "Bela", appearance |-> ""]}
ExtractionResponsesWide == BoundedSeq(ExtractedInfosWide, MaxExtractedWide)

\* a slice that drops nothing
Phase_Slice_all(infos) == infos

\* extractedCharInfos.slice(0, MAX_CHARACTERS)
Phase_Slice(infos) ==
    SubSeq(infos, 1, IF Len(infos) < MAX_CHARACTERS THEN Len(infos) ELSE MAX_CHARACTERS)

\* extractedCharInfos.slice(0, MAX_CHARACTERS).map(info => ({...info, id, isAiExtracted: true}))
Phase_FromExtraction(infos, firstId) ==
    [k \in 1..Len(Phase_Slice(infos)) |->
        [Phase_NewCharacter(firstId + k - 1) EXCEPT !.name = Phase_Slice(infos)[k].name,
                                                    !.appearance = Phase_Slice(infos)[k].appearance,
                                                    !.isAiExtracted = TRUE]]

\* handleExtractOrConfirmCharacters after its await, the call settling with
\* one of responses or raising
Phase_ExtractionSettles(responses, maxIds) ==
    /\ app = "phase"
    /\ \E t \in 1..Len(tasks) :
        /\ tasks[t].kind = "extractCharacters"
        /\ \E r \in Returned(responses) \cup Raised :
            /\ IF r.ok /\ Len(r.value) > 0
               THEN /\ idCounter + Len(Phase_FromExtraction(r.value, idCounter)) - 1 <= maxIds
                    /\ characters' = Phase_FromExtraction(r.value, idCounter)
                    /\ idCounter' = idCounter + Len(characters')
                    /\ currentPhase' = "AWAITING_USER_CHARACTER_CONFIRMATION"
                    /\ UNCHANGED error
               ELSE IF r.ok
               THEN /\ currentPhase' = "AWAITING_USER_CHARACTER_CONFIRMATION"
                    /\ UNCHANGED <<characters, idCounter, error>>
               ELSE /\ Phase_handleError("Character extraction failed: " \o r.value,
                                         "AWAITING_USER_CHARACTER_CONFIRMATION")
                    /\ UNCHANGED <<characters, idCounter>>
            /\ tasks' = RemoveAt(tasks, t)
            /\ last' = [Snapshot("settleExtractCharacters", 0) EXCEPT
                            !.response = IF r.ok THEN r.value ELSE <<>>, !.raised = ~r.ok]
    /\ UNCHANGED <<storyText, scenes, userHasInteractedWithChars, sceneIdCounter>>
    /\ Phase_Frame

Phase_SettleExtractCharacters == Phase_ExtractionSettles(ExtractionResponses, MaxCharIds)

\* a completion that puts the character back when the registry has lost it
Phase_DesignSettled_readds(chars, characterId, r) ==
    IF Some(chars, LAMBDA c : c.id = characterId)
    THEN Map(chars, LAMBDA c :
            IF c.id # characterId THEN c
            ELSE IF r.ok THEN [c EXCEPT !.generatedDesignUrl = r.value, !.isDesignLoading = FALSE]
            ELSE [c EXCEPT !.designError = MessageOr(r.value, "Unknown error"), !.isDesignLoading = FALSE])
    ELSE Append(chars, Phase_NewCharacter(characterId))

\* a completion that forgets the loading flag when the call has failed
Phase_DesignSettled_failureKeepsLoading(chars, characterId, r) ==
    Map(chars, LAMBDA c :
        IF c.id # characterId THEN c
        ELSE IF r.ok THEN [c EXCEPT !.generatedDesignUrl = r.value, !.isDesignLoading = FALSE]
        ELSE [c EXCEPT !.designError = MessageOr(r.value, "Unknown error")])

\* the setCharacters updaters after generateMultiViewCharacterSheetImage settles
Phase_DesignSettled(chars, characterId, r) ==
    Map(chars, LAMBDA c :
        IF c.id # characterId THEN c
        ELSE IF r.ok THEN [c EXCEPT !.generatedDesignUrl = r.value, !.isDesignLoading = FALSE]
        ELSE [c EXCEPT !.designError = MessageOr(r.value, "Unknown error"), !.isDesignLoading = FALSE])

\* a loop that gives up at the first call that fails
Phase_LoopContinues_untilFailure(task, r) == r.ok /\ task.i < Len(task.queue)

\* for (const char of charsToDesign): the try/catch inside the loop takes
\* every outcome r of a call, and the loop goes on while characters are left
Phase_LoopContinues(task, r) == task.i < Len(task.queue)

\* a loop that issues the call of a character again when it has failed
Phase_NextIndex_retry(task, r) == IF r.ok THEN task.i + 1 ELSE task.i

\* for (const char of charsToDesign): the next turn takes the next character,
\* whatever the call of this turn settled with
Phase_NextIndex(task, r) == task.i + 1

\* one turn of the loop of handleGenerateAllCharacterDesigns: the call for
\* charsToDesign[i] settles, then the next call is issued or the handler ends
Phase_SettleDesignOfAll ==
    /\ app = "phase"
    /\ \E t \in 1..Len(tasks) :
        /\ tasks[t].kind = "designAll"
        /\ \E r \in Returned(DesignUrls) \cup Raised :
            /\ characters' = Phase_DesignSettled(characters, tasks[t].queue[tasks[t].i].id, r)
            /\ IF Phase_LoopContinues(tasks[t], r)
               THEN /\ tasks' = [tasks EXCEPT ![t].i = Phase_NextIndex(tasks[t], r)]
                    /\ UNCHANGED currentPhase
                    /\ last' = [Snapshot("settleDesignOfAll", tasks[t].queue[tasks[t].i].id)
                                    EXCEPT !.sel = Ids(tasks[t].queue), !.raised = ~r.ok]
               ELSE /\ tasks' = RemoveAt(tasks, t)
                    /\ currentPhase' = "AWAITING_CHARACTER_DESIGN_APPROVAL"
                    /\ last' = [Snapshot("endGenerateAllCharacterDesigns", tasks[t].queue[tasks[t].i].id)
                                    EXCEPT !.sel = Ids(tasks[t].queue), !.raised = ~r.ok]
    /\ UNCHANGED <<storyText, scenes, error, userHasInteractedWithChars, idCounter, sceneIdCounter>>
    /\ Phase_Frame

\* handleGenerateSingleCharacterDesign after its await; stillLoading reads the
\* characters the handler's closure captured
Phase_SettleDesignOfSingle ==
    /\ app = "phase"
    /\ \E t \in 1..Len(tasks) :
        /\ tasks[t].kind = "designSingle"
        /\ \E r \in Returned(DesignUrls) \cup Raised :
            /\ characters' = Phase_DesignSettled(characters, tasks[t].charId, r)
            /\ currentPhase' =
                  IF Some(tasks[t].chars, LAMBDA c : c.id # tasks[t].charId /\ c.isDesignLoading)
                  THEN currentPhase
                  ELSE "AWAITING_CHARACTER_DESIGN_APPROVAL"
            /\ tasks' = RemoveAt(tasks, t)
            /\ last' = Snapshot("settleDesignOfSingle", tasks[t].charId)
    /\ UNCHANGED <<storyText, scenes, error, userHasInteractedWithChars, idCounter, sceneIdCounter>>
    /\ Phase_Frame

\* the scenes of a DeconstructedStoryResponse (imagePrompt decides nothing)
SceneResponses == {[sceneSummary |-> "A", charactersInScene |-> <<"Arin">>]}

\* what deconstructStoryAndCreatePrompts settles with: the scenes of its
\* response (the service raises when the scenes array is missing) or an error
DeconstructionOutcomes == Returned(BoundedSeq(SceneResponses, MaxScenes)) \cup Raised

\* the same with a second kind of scene and up to MaxScenesWide scenes
SceneResponsesWide == SceneResponses \cup {[sceneSummary |-> "B", charactersInScene |-> <<>>]}
DeconstructionOutcomesWide == Returned(BoundedSeq(SceneResponsesWide, MaxScenesWide)) \cup Raised

\* deconstructedStoryResponse.scenes.map(s => ({...s, id: generateId()}))
Phase_InitialScenes(responses, firstId) ==
    [k \in 1..Len(responses) |->
        [id |-> firstId + k - 1, sceneSummary |-> responses[k].sceneSummary,
         charactersInScene |-> responses[k].charactersInScene,
         imageUrl |-> Undefined, imageError |-> Undefined]]

\* handleGenerateVisualStory after deconstructStoryAndCreatePrompts settles,
\* up to the first generateSceneImageWithReferences call
Phase_DeconstructionSettles(outcomes, maxIds) ==
    /\ app = "phase"
    /\ \E t \in 1..Len(tasks) :
        /\ tasks[t].kind = "deconstructStory"
        /\ \E r \in outcomes :
            /\ IF ~r.ok
               THEN /\ Phase_handleError("Storyboard generation failed: " \o r.value, "ERROR")
                    /\ tasks' = RemoveAt(tasks, t)
                    /\ UNCHANGED <<scenes, sceneIdCounter>>
               ELSE IF Len(r.value) = 0
               THEN /\ Phase_handleError("Failed to deconstruct story or no scenes were found.",
                                         "AWAITING_STORY_INPUT")
                    /\ tasks' = RemoveAt(tasks, t)
                    /\ UNCHANGED <<scenes, sceneIdCounter>>
               ELSE /\ sceneIdCounter + Len(r.value) - 1 <= maxIds
                    /\ scenes' = Phase_InitialScenes(r.value, sceneIdCounter)
                    /\ sceneIdCounter' = sceneIdCounter + Len(r.value)
                    /\ currentPhase' = "GENERATING_SCENE_IMAGES"
                    /\ tasks' = [tasks EXCEPT ![t] = [@ EXCEPT !.kind = "sceneImages",
                                                               !.initialScenes = scenes',
                                                               !.updated = <<>>, !.i = 1]]
                    /\ UNCHANGED error
            /\ last' = [Snapshot("settleDeconstructStory", 0) EXCEPT
                            !.response = IF r.ok THEN r.value ELSE <<>>, !.raised = ~r.ok]
    /\ UNCHANGED <<storyText, characters, userHasInteractedWithChars, idCounter>>
    /\ Phase_Frame

Phase_SettleDeconstructStory == Phase_DeconstructionSettles(DeconstructionOutcomes, MaxSceneIds)

\* a push that leaves a scene whose image call failed as it was
Phase_SceneSettled_noError(scene, r) ==
    IF r.ok THEN [scene EXCEPT !.imageUrl = r.value] ELSE scene

\* a push that keeps the image fields and the id of the scene only
Phase_SceneSettled_bare(scene, r) ==
    IF r.ok THEN [scene EXCEPT !.imageUrl = r.value, !.charactersInScene = <<>>]
    ELSE [scene EXCEPT !.imageUrl = Undefined, !.charactersInScene = <<>>,
                       !.imageError = "Failed to generate image: " \o MessageOr(r.value, "Unknown error")]

\* updatedScenesWithImages.push(...) after generateSceneImageWithReferences settles
Phase_SceneSettled(scene, r) ==
    IF r.ok THEN [scene EXCEPT !.imageUrl = r.value]
    ELSE [scene EXCEPT !.imageUrl = Undefined,
                       !.imageError = "Failed to generate image: " \o MessageOr(r.value, "Unknown error")]

\* an updater that moves the finished scene to the end of the timeline
Phase_ReplaceScene_moveToEnd(prevScenes, scene) ==
    Append(SelectSeq(prevScenes, LAMBDA s : s.id # scene.id), scene)

\* the progressive setScenes updater: the scene with that id is replaced
Phase_ReplaceScene(prevScenes, scene) ==
    Map(prevScenes, LAMBDA s :
        IF FindIndex(prevScenes, LAMBDA x : x.id = scene.id) # 0
           /\ prevScenes[FindIndex(prevScenes, LAMBDA x : x.id = scene.id)] = s
           /\ s.id = scene.id
        THEN scene ELSE s)

\* a handler that goes back to IDLE after the last scene
Phase_AfterLastScene_idle == "IDLE"

\* setCurrentPhase(GenerationPhase.COMPLETE) after the loop
Phase_AfterLastScene == "COMPLETE"

\* one turn of the image loop of handleGenerateVisualStory: the call for
\* initialScenes[i] settles, then the next call is issued or the handler ends
\* what the forEach body pushes for one name of charactersInScene
Phase_ReferenceOf(chars, charNameInScene) ==
    LET k == FindIndex(chars, LAMBDA c : c.name = charNameInScene /\ Truthy(c.approvedDesignUrl))
    IN  IF k # 0 /\ Truthy(getBase64FromDataUrl(chars[k].approvedDesignUrl))
        THEN <<[mimeType |-> IF Truthy(MimeMatch(chars[k].approvedDesignUrl))
                             THEN MimeMatch(chars[k].approvedDesignUrl)
                             ELSE "image/jpeg",
                data |-> getBase64FromDataUrl(chars[k].approvedDesignUrl)]>>
        ELSE <<>>

\* referenceImageParts after scene.charactersInScene.forEach(...)
RECURSIVE Phase_referenceImageParts(_, _)
Phase_referenceImageParts(chars, names) ==
    IF names = <<>> THEN <<>>
    ELSE Phase_ReferenceOf(chars, Head(names)) \o Phase_referenceImageParts(chars, Tail(names))

Phase_SettleSceneImage ==
    /\ app = "phase"
    /\ \E t \in 1..Len(tasks) :
        /\ tasks[t].kind = "sceneImages"
        /\ \E r \in Returned(SceneUrls) \cup Raised :
            LET scene == Phase_SceneSettled(tasks[t].initialScenes[tasks[t].i], r)
                updatedScenesWithImages == Append(tasks[t].updated, scene)
            IN  /\ IF tasks[t].i < Len(tasks[t].initialScenes)
                   THEN /\ scenes' = Phase_ReplaceScene(scenes, scene)
                        /\ tasks' = [tasks EXCEPT ![t].updated = updatedScenesWithImages, ![t].i = @ + 1]
                        /\ UNCHANGED currentPhase
                   ELSE /\ scenes' = updatedScenesWithImages
                        /\ currentPhase' = Phase_AfterLastScene
                        /\ tasks' = RemoveAt(tasks, t)
                /\ last' = [Snapshot("settleSceneImage", tasks[t].initialScenes[tasks[t].i].id)
                                EXCEPT !.raised = ~r.ok,
                                       !.references = Phase_referenceImageParts(tasks[t].chars,
                                            tasks[t].initialScenes[tasks[t].i].charactersInScene)]
    /\ UNCHANGED <<storyText, characters, error, userHasInteractedWithChars, idCounter, sceneIdCounter>>
    /\ Phase_Frame

\* the completions of the calls in flight
Phase_Settle ==
    \/ Phase_SettleExtractCharacters
    \/ Phase_SettleDesignOfAll
    \/ Phase_SettleDesignOfSingle
    \/ Phase_SettleDeconstructStory
    \/ Phase_SettleSceneImage

\* the steps of the phase machine through its rendered, enabled controls;
\* the handlers named in free are invoked in any state
Phase_Next(free) ==
    \/ Phase_setStoryText(TRUE)
    \/ Phase_addCharacter(TRUE)
    \/ Phase_updateCharacter(TRUE)
    \/ Phase_removeCharacter(TRUE)
    \/ Phase_handleApproveCharacterDesign("approveCharacterDesign" \notin free)
    \/ Phase_handleExtractOrConfirmCharacters("submitStory" \notin free)
    \/ Phase_handleGenerateAllCharacterDesigns("generateAllCharacterDesigns" \notin free)
    \/ Phase_handleGenerateSingleCharacterDesign("generateSingleCharacterDesign" \notin free)
    \/ Phase_handleGenerateVisualStory("buildStoryboard" \notin free)
    \/ Phase_Settle

\* the phase machine driven through its rendered controls
SpecPhaseUI == Phase_Init /\ [][Phase_Next({})]_vars

\* the phase machine with submitStory and buildStoryboard invoked in any state
SpecStoryHandlers == Phase_Init /\ [][Phase_Next({"submitStory", "buildStoryboard"})]_vars

\* the phase machine driven through its rendered controls, with
\* removeCharacter invoked in any state as well
RemoveInFlight_Next ==
    \/ Phase_Next({})
    \/ Phase_removeCharacter(FALSE)

SpecRemoveInFlight == Phase_Init /\ [][RemoveInFlight_Next]_vars

\* the phase machine with its three design handlers invoked in any state
SpecDesignHandlers ==
    Phase_Init /\ [][Phase_Next({"generateAllCharacterDesigns", "generateSingleCharacterDesign",
                                  "approveCharacterDesign"})]_vars

\* the phase machine driven through its form, with every call in flight
\* settling eventually
SpecPhaseUIFair == SpecPhaseUI /\ WF_vars(Phase_Settle)

(***************************************************************************)
(* The wizard (src/App.tsx lines 262-541 with its page components).  Its   *)
(* Character calls the design fields generatedDesignImageUrl and           *)
(* approvedDesignImageUrl; the model keeps one record for all iterations,  *)
(* and appearance stands for the wizard's description fields.  While       *)
(* operationStatus is LOADING the fixed full-screen overlay (z-50) lies    *)
(* over every control but the error banner (z-60): at the level of the     *)
(* rendered controls nothing under it is clicked.                          *)
(***************************************************************************)
ApiKeyCritical == "CRITICAL: API Key is missing. App will not function."
ApiKeyCannotProceed == "API Key is missing. Cannot proceed."

\* globalError?.includes("API Key")
IncludesApiKey(e) == e \in {ApiKeyCritical, ApiKeyCannotProceed}

\* operationStatus === OperationStatus.ERROR && globalError?.includes("API Key")
Wizard_ApiKeyBlocked == operationStatus = "ERROR" /\ IncludesApiKey(error)

Wizard_Init ==
    /\ app = "wizard"
    /\ storyText = ""
    /\ characters = <<>>
    /\ scenes = <<>>
    /\ currentView = "welcome"
    /\ \/ operationStatus = "IDLE" /\ error = Null
       \/ operationStatus = "ERROR" /\ error = ApiKeyCritical
    /\ currentPhase = "none"
    /\ userHasInteractedWithChars = FALSE
    /\ tasks = <<>>
    /\ isLoadingStory = FALSE
    /\ isLoadingImages = FALSE
    /\ apiKey = TRUE
    /\ idCounter = 1
    /\ sceneIdCounter = 1
    /\ last = [op |-> "init", arg |-> 0, currentPhase |-> "none", characters |-> <<>>,
               scenes |-> <<>>, storyText |-> "", ntasks |-> 0,
               operationStatus |-> operationStatus, currentView |-> "welcome", error |-> error,
               sel |-> {}, response |-> <<>>, raised |-> FALSE, references |-> <<>>, forced |-> 0]

Wizard_Frame ==
    UNCHANGED <<app, currentPhase, userHasInteractedWithChars, isLoadingStory, isLoadingImages, apiKey>>

\* the isLoading prop of every page, which is also when the overlay is up
Wizard_isLoading == operationStatus = "LOADING"

\* resetToWelcome, behind "New Story" and "Create Another Story"
Wizard_resetToWelcome(ui) ==
    /\ app = "wizard" /\ UserMayAct
    /\ ui => (currentView # "welcome" /\ ~Wizard_isLoading)
    /\ storyText' = ""
    /\ characters' = <<>>
    /\ scenes' = <<>>
    /\ error' = Null
    /\ operationStatus' = "IDLE"
    /\ currentView' = "welcome"
    /\ last' = Invoked(ui, currentView # "welcome" /\ ~Wizard_isLoading, Snapshot("resetToWelcome", 0))
    /\ UNCHANGED <<tasks, idCounter, sceneIdCounter>>
    /\ Wizard_Frame

\* handleError(message)
Wizard_handleError(message) ==
    /\ error' = message
    /\ operationStatus' = "ERROR"

\* the × of the error banner
Wizard_dismissError(ui) ==
    /\ app = "wizard" /\ UserMayAct
    /\ ui => Truthy(error)
    /\ error' = Null
    /\ operationStatus' = IF operationStatus = "ERROR" /\ ~IncludesApiKey(error)
                          THEN "IDLE" ELSE operationStatus
    /\ last' = Edited("dismissError", 0)
    /\ UNCHANGED <<storyText, characters, scenes, currentView, tasks, idCounter, sceneIdCounter>>
    /\ Wizard_Frame

\* the setCurrentView handlers: handleStartCreating, handleCharactersDefined
\* and the onBack of the three inner pages
Wizard_navigate(ui) ==
    /\ app = "wizard" /\ UserMayAct
    /\ \E step \in {<<"welcome", "storyInput">>, <<"characterDefinition", "globalPreferences">>,
                    <<"characterDefinition", "storyInput">>, <<"globalPreferences", "characterDefinition">>,
                    <<"characterDesignReview", "globalPreferences">>} :
        /\ ui => /\ currentView = step[1]
                 /\ ~Wizard_isLoading
                 /\ step = <<"characterDefinition", "globalPreferences">>
                        => Some(characters, LAMBDA c : Trim(c.name) # "")
        /\ currentView' = step[2]
        /\ last' = Edited("navigate", 0)
    /\ UNCHANGED <<storyText, characters, scenes, error, operationStatus, tasks, idCounter, sceneIdCounter>>
    /\ Wizard_Frame

\* StoryInputPage: the textarea's onChange
Wizard_setStoryText(ui) ==
    /\ app = "wizard" /\ UserMayAct
    /\ ui => (currentView = "storyInput" /\ ~Wizard_isLoading)
    /\ \E v \in StoryTexts :
        /\ v # storyText
        /\ storyText' = v
        /\ last' = Edited("setStoryText", 0)
    /\ UNCHANGED <<characters, scenes, error, operationStatus, currentView, tasks, idCounter, sceneIdCounter>>
    /\ Wizard_Frame

\* CharacterDefinitionPage: addCharacter
Wizard_AddsCharacter(ui, maxIds) ==
    /\ app = "wizard" /\ UserMayAct
    /\ ui => (currentView = "characterDefinition" /\ Len(characters) < MAX_CHARACTERS /\ ~Wizard_isLoading)
    /\ IF Len(characters) < MAX_CHARACTERS
       THEN /\ idCounter <= maxIds
            /\ characters' = Append(characters, Phase_NewCharacter(idCounter))
            /\ idCounter' = idCounter + 1
       ELSE UNCHANGED <<characters, idCounter>>
    /\ last' = Edited("addCharacter", 0)
    /\ UNCHANGED <<storyText, scenes, error, operationStatus, currentView, tasks, sceneIdCounter>>
    /\ Wizard_Frame

Wizard_addCharacter(ui) == Wizard_AddsCharacter(ui, MaxCharIds)

\* CharacterDefinitionPage: updateCharacterField(index, field, value)
Wizard_updateCharacterField(ui) ==
    /\ app = "wizard" /\ UserMayAct
    /\ ui => (currentView = "characterDefinition" /\ ~Wizard_isLoading)
    /\ \E k \in 1..Len(characters), field \in {"name", "appearance"} :
        \E v \in (IF field = "name" THEN CharNames ELSE Appearances) \ {characters[k][field]} :
            /\ characters' = [characters EXCEPT ![k] = [@ EXCEPT ![field] = v, !.isAiExtracted = FALSE]]
            /\ last' = Edited("updateCharacter", characters[k].id)
    /\ UNCHANGED <<storyText, scenes, error, operationStatus, currentView, tasks, idCounter, sceneIdCounter>>
    /\ Wizard_Frame

\* CharacterDefinitionPage: removeCharacter(id)
Wizard_removeCharacter(ui) ==
    /\ app = "wizard" /\ UserMayAct
    /\ ui => (currentView = "characterDefinition" /\ ~Wizard_isLoading)
    /\ \E k \in 1..Len(characters) :
        /\ characters' = SelectSeq(characters, LAMBDA c : c.id # characters[k].id)
        /\ last' = Edited("removeCharacter", characters[k].id)
    /\ UNCHANGED <<storyText, scenes, error, operationStatus, currentView, tasks, idCounter, sceneIdCounter>>
    /\ Wizard_Frame

\* handleStorySubmitted up to its await, behind "Continue to Character
\* Descriptions" and "Let AI Suggest Characters from Story"
Wizard_handleStorySubmitted(ui) ==
    /\ app = "wizard" /\ UserMayAct
    /\ ui => /\ ~Wizard_isLoading
             /\ \/ currentView = "storyInput" /\ Trim(storyText) # ""
                \/ /\ currentView = "characterDefinition"
                   /\ ~Some(characters, LAMBDA c : c.isAiExtracted)
                   /\ Len(characters) = 0
    /\ IF Wizard_ApiKeyBlocked
       THEN /\ Wizard_handleError(ApiKeyCannotProceed)
            /\ UNCHANGED tasks
       ELSE IF Trim(storyText) = ""
       THEN /\ error' = "Please enter a story first."
            /\ operationStatus' = "IDLE"
            /\ UNCHANGED tasks
       ELSE /\ Room
            /\ error' = Null
            /\ operationStatus' = "LOADING"
            /\ tasks' = Append(tasks, [NoTask EXCEPT !.kind = "extractCharacters"])
    /\ last' = Snapshot("storySubmitted", 0)
    /\ UNCHANGED <<storyText, characters, scenes, currentView, idCounter, sceneIdCounter>>
    /\ Wizard_Frame

\* handleStorySubmitted after its await
Wizard_ExtractionSettles(responses, maxIds) ==
    /\ app = "wizard"
    /\ \E t \in 1..Len(tasks) :
        /\ tasks[t].kind = "extractCharacters"
        /\ \E r \in Returned(responses) \cup Raised :
            /\ IF r.ok
               THEN /\ idCounter + Len(Phase_FromExtraction(r.value, idCounter)) - 1 <= maxIds
                    /\ characters' = Phase_FromExtraction(r.value, idCounter)
                    /\ idCounter' = idCounter + Len(characters')
                    /\ currentView' = "characterDefinition"
                    /\ operationStatus' = "IDLE"
                    /\ UNCHANGED error
               ELSE /\ Wizard_handleError("Failed to extract characters: " \o r.value)
                    /\ UNCHANGED <<characters, idCounter, currentView>>
            /\ tasks' = RemoveAt(tasks, t)
            /\ last' = [Snapshot("settleExtractCharacters", 0) EXCEPT
                            !.response = IF r.ok THEN r.value ELSE <<>>, !.raised = ~r.ok]
    /\ UNCHANGED <<storyText, scenes, sceneIdCounter>>
    /\ Wizard_Frame

Wizard_SettleExtractCharacters == Wizard_ExtractionSettles(ExtractionResponses, MaxCharIds)

\* a selection that takes the characters that are loading as well
Wizard_charsToDesign_withLoading(chars) ==
    SelectSeq(chars, LAMBDA c : Trim(c.name) # "" /\ ~Truthy(c.approvedDesignUrl))

\* the default selection of handleGenerateAllCharacterDesigns
Wizard_charsToDesign(chars) ==
    SelectSeq(chars, LAMBDA c : Trim(c.name) # "" /\ ~Truthy(c.approvedDesignUrl) /\ ~c.isDesignLoading)

\* handleGenerateAllCharacterDesigns(charsToDesign) from the point where the
\* selection is known to the first await; the loop skips a character whose
\* name is blank, and a selection of such characters ends the handler at once
Wizard_StartBatch(charsToDesign) ==
    LET queue == SelectSeq(charsToDesign, LAMBDA c : Trim(c.name) # "")
    IN  /\ error' = Null
        /\ characters' = Phase_MarkLoading(characters, Ids(charsToDesign))
        /\ IF queue = <<>>
           THEN /\ operationStatus' = "IDLE"
                /\ UNCHANGED tasks
           ELSE /\ Room
                /\ operationStatus' = "LOADING"
                /\ tasks' = Append(tasks, [NoTask EXCEPT !.kind = "designAll", !.queue = queue, !.i = 1])

\* CharacterDesignReviewPage: the "Generate Missing Design Sheets" button
Wizard_offersGenerateMissing ==
    /\ currentView = "characterDesignReview"
    /\ ~Wizard_isLoading
    /\ Some(characters, LAMBDA c : /\ Trim(c.name) # ""
                                   /\ ~Truthy(c.generatedDesignUrl) /\ ~Truthy(c.approvedDesignUrl)
                                   /\ ~c.isDesignLoading /\ ~Truthy(c.designError))

\* handleGenerateAllCharacterDesigns(), behind "Generate Missing Design Sheets"
Wizard_handleGenerateAllCharacterDesigns(ui) ==
    /\ app = "wizard" /\ UserMayAct
    /\ ui => Wizard_offersGenerateMissing
    /\ IF Wizard_ApiKeyBlocked \/ Wizard_charsToDesign(characters) = <<>>
       THEN UNCHANGED <<error, operationStatus, characters, tasks>>
       ELSE Wizard_StartBatch(Wizard_charsToDesign(characters))
    /\ last' = Invoked(ui, Wizard_offersGenerateMissing, Snapshot("generateAllCharacterDesigns", 0))
    /\ UNCHANGED <<storyText, scenes, currentView, idCounter, sceneIdCounter>>
    /\ Wizard_Frame

\* one turn of the loop of handleGenerateAllCharacterDesigns
Wizard_SettleDesignOfAll ==
    /\ app = "wizard"
    /\ \E t \in 1..Len(tasks) :
        /\ tasks[t].kind = "designAll"
        /\ \E r \in Returned(DesignUrls) \cup Raised :
            /\ characters' = Phase_DesignSettled(characters, tasks[t].queue[tasks[t].i].id, r)
            /\ IF tasks[t].i < Len(tasks[t].queue)
               THEN /\ tasks' = [tasks EXCEPT ![t].i = @ + 1]
                    /\ UNCHANGED operationStatus
                    /\ last' = [Snapshot("settleDesignOfAll", tasks[t].queue[tasks[t].i].id)
                                    EXCEPT !.sel = Ids(tasks[t].queue)]
               ELSE /\ tasks' = RemoveAt(tasks, t)
                    /\ operationStatus' = "IDLE"
                    /\ last' = [Snapshot("endGenerateAllCharacterDesigns", tasks[t].queue[tasks[t].i].id)
                                    EXCEPT !.sel = Ids(tasks[t].queue)]
    /\ UNCHANGED <<storyText, scenes, error, currentView, idCounter, sceneIdCounter>>
    /\ Wizard_Frame

\* the early return of handleRegenerateSingleCharacterDesign
Wizard_RegenerateRefused(chars, characterId) ==
    LET k == FindIndex(chars, LAMBDA c : c.id = characterId)
    IN  k = 0 \/ Trim(chars[k].name) = ""

\* CharacterDesignReviewCard: the "Regenerate Design" button of characterId
Wizard_offersRegenerate(characterId) ==
    /\ currentView = "characterDesignReview"
    /\ \E k \in 1..Len(characters) :
        /\ characters[k].id = characterId
        /\ Trim(characters[k].name) # ""
        /\ ~characters[k].isDesignLoading /\ ~Wizard_isLoading
        /\ ~Truthy(characters[k].approvedDesignUrl)

\* handleRegenerateSingleCharacterDesign(characterId) up to its await
Wizard_handleRegenerateSingleCharacterDesign(ui) ==
    /\ app = "wizard" /\ UserMayAct
    /\ \E characterId \in IF ui THEN Ids(characters) ELSE Ids(characters) \cup {0} :
        /\ ui => Wizard_offersRegenerate(characterId)
        /\ IF Wizard_ApiKeyBlocked \/ Wizard_RegenerateRefused(characters, characterId)
           THEN UNCHANGED <<error, operationStatus, characters, tasks>>
           ELSE /\ Room
                /\ error' = Null
                /\ operationStatus' = "LOADING"
                /\ characters' = Map(Phase_MarkLoading(characters, {characterId}), LAMBDA c :
                                     IF c.id = characterId THEN [c EXCEPT !.approvedDesignUrl = Undefined] ELSE c)
                /\ tasks' = Append(tasks, [NoTask EXCEPT !.kind = "designSingle", !.charId = characterId])
        /\ last' = Invoked(ui, Wizard_offersRegenerate(characterId),
                            Snapshot("regenerateSingleCharacterDesign", characterId))
    /\ UNCHANGED <<storyText, scenes, currentView, idCounter, sceneIdCounter>>
    /\ Wizard_Frame

\* handleRegenerateSingleCharacterDesign after its await, with its finally
Wizard_SettleDesignOfSingle ==
    /\ app = "wizard"
    /\ \E t \in 1..Len(tasks) :
        /\ tasks[t].kind = "designSingle"
        /\ \E r \in Returned(DesignUrls) \cup Raised :
            /\ characters' = Phase_DesignSettled(characters, tasks[t].charId, r)
            /\ operationStatus' = "IDLE"
            /\ tasks' = RemoveAt(tasks, t)
            /\ last' = Snapshot("settleDesignOfSingle", tasks[t].charId)
    /\ UNCHANGED <<storyText, scenes, error, currentView, idCounter, sceneIdCounter>>
    /\ Wizard_Frame

\* CharacterDesignReviewCard: the "Approve Design" button of characterId
Wizard_offersApprove(characterId) ==
    /\ currentView = "characterDesignReview"
    /\ \E k \in 1..Len(characters) :
        /\ characters[k].id = characterId
        /\ Trim(characters[k].name) # ""
        /\ ~Truthy(characters[k].approvedDesignUrl)
        /\ Truthy(characters[k].generatedDesignUrl)
        /\ ~characters[k].isDesignLoading /\ ~Wizard_isLoading

\* the setCharacters updater of the wizard's handleApproveCharacterDesign
Wizard_ApproveIn(chars, characterId) ==
    Map(chars, LAMBDA c :
        IF c.id = characterId /\ Truthy(c.generatedDesignUrl)
        THEN [c EXCEPT !.approvedDesignUrl = c.generatedDesignUrl, !.generatedDesignUrl = Undefined,
                       !.designError = Undefined, !.isDesignLoading = FALSE]
        ELSE c)

\* handleApproveCharacterDesign(characterId); id 0 is an id no character has
Wizard_handleApproveCharacterDesign(ui) ==
    /\ app = "wizard" /\ UserMayAct
    /\ \E characterId \in IF ui THEN Ids(characters) ELSE Ids(characters) \cup {0} :
        /\ ui => Wizard_offersApprove(characterId)
        /\ characters' = Wizard_ApproveIn(characters, characterId)
        /\ last' = Invoked(ui, Wizard_offersApprove(characterId), Snapshot("approveCharacterDesign", characterId))
    /\ UNCHANGED <<storyText, scenes, error, operationStatus, currentView, tasks, idCounter, sceneIdCounter>>
    /\ Wizard_Frame

\* namedCharacters.length > 0 && namedCharacters.some(c => !c.approvedDesignImageUrl)
Wizard_GateFails(chars) ==
    Some(chars, LAMBDA c : Truthy(c.name) /\ Trim(c.name) # "" /\ ~Truthy(c.approvedDesignUrl))

\* handleGenerateStoryboard from its gate to its first await
Wizard_StartStoryboard ==
    IF Wizard_GateFails(characters)
    THEN /\ error' = "Please approve all named character designs before generating the storyboard."
         /\ operationStatus' = "IDLE"
         /\ currentView' = "characterDesignReview"
         /\ UNCHANGED <<scenes, tasks>>
    ELSE /\ Room
         /\ error' = Null
         /\ operationStatus' = "LOADING"
         /\ scenes' = <<>>
         /\ tasks' = Append(tasks, [NoTask EXCEPT !.kind = "deconstructStory", !.chars = characters])
         /\ UNCHANGED currentView

\* CharacterDesignReviewPage: the "Continue to Storyboard Generation" button
Wizard_offersGenerateStoryboard ==
    /\ currentView = "characterDesignReview"
    /\ ~Wizard_isLoading
    /\ ~Wizard_GateFails(characters)

\* handleGenerateStoryboard, behind "Continue to Storyboard Generation"
Wizard_handleGenerateStoryboard(ui) ==
    /\ app = "wizard" /\ UserMayAct
    /\ ui => Wizard_offersGenerateStoryboard
    /\ IF Wizard_ApiKeyBlocked
       THEN UNCHANGED <<error, operationStatus, currentView, scenes, tasks>>
       ELSE Wizard_StartStoryboard
    /\ last' = Invoked(ui, Wizard_offersGenerateStoryboard, Snapshot("generateStoryboard", 0))
    /\ UNCHANGED <<storyText, characters, idCounter, sceneIdCounter>>
    /\ Wizard_Frame

\* handlePreferencesSet, behind "Continue to Character Design Review": it
\* starts the batch for the named characters without any design, or the
\* storyboard when no character is named
Wizard_handlePreferencesSet(ui) ==
    /\ app = "wizard" /\ UserMayAct
    /\ ui => (currentView = "globalPreferences" /\ ~Wizard_isLoading)
    /\ LET namedChars == SelectSeq(characters, LAMBDA c : Truthy(c.name) /\ Trim(c.name) # "")
           charsNeedingDesign == SelectSeq(namedChars, LAMBDA c :
                                     ~Truthy(c.generatedDesignUrl) /\ ~Truthy(c.approvedDesignUrl))
       IN  IF Wizard_ApiKeyBlocked
           THEN UNCHANGED <<error, operationStatus, currentView, characters, scenes, tasks>>
           ELSE IF Len(namedChars) > 0
           THEN /\ currentView' = "characterDesignReview"
                /\ IF Len(charsNeedingDesign) > 0
                   THEN Wizard_StartBatch(charsNeedingDesign)
                   ELSE /\ error' = Null
                        /\ operationStatus' = "IDLE"
                        /\ UNCHANGED <<characters, tasks>>
                /\ UNCHANGED scenes
           ELSE /\ Wizard_StartStoryboard
                /\ UNCHANGED characters
    /\ last' = Snapshot("preferencesSet", 0)
    /\ UNCHANGED <<storyText, idCounter, sceneIdCounter>>
    /\ Wizard_Frame

\* handleGenerateStoryboard after deconstructStoryAndCreatePrompts settles,
\* up to the first generateSceneImageWithReferences call
Wizard_DeconstructionSettles(outcomes, maxIds) ==
    /\ app = "wizard"
    /\ \E t \in 1..Len(tasks) :
        /\ tasks[t].kind = "deconstructStory"
        /\ \E r \in outcomes :
            /\ IF ~r.ok
               THEN /\ Wizard_handleError("Storyboard generation failed: " \o r.value)
                    /\ currentView' = "storyboardDisplay"
                    /\ tasks' = RemoveAt(tasks, t)
                    /\ UNCHANGED <<scenes, sceneIdCounter>>
               ELSE IF Len(r.value) = 0
               THEN /\ Wizard_handleError("Failed to deconstruct story or no scenes found.")
                    /\ currentView' = "characterDesignReview"
                    /\ tasks' = RemoveAt(tasks, t)
                    /\ UNCHANGED <<scenes, sceneIdCounter>>
               ELSE /\ sceneIdCounter + Len(r.value) - 1 <= maxIds
                    /\ scenes' = Phase_InitialScenes(r.value, sceneIdCounter)
                    /\ sceneIdCounter' = sceneIdCounter + Len(r.value)
                    /\ currentView' = "storyboardDisplay"
                    /\ tasks' = [tasks EXCEPT ![t] = [@ EXCEPT !.kind = "sceneImages",
                                                               !.initialScenes = scenes',
                                                               !.updated = <<>>, !.i = 1]]
                    /\ UNCHANGED <<error, operationStatus>>
            /\ last' = [Snapshot("settleDeconstructStory", 0) EXCEPT
                            !.response = IF r.ok THEN r.value ELSE <<>>, !.raised = ~r.ok]
    /\ UNCHANGED <<storyText, characters, idCounter>>
    /\ Wizard_Frame

Wizard_SettleDeconstructStory == Wizard_DeconstructionSettles(DeconstructionOutcomes, MaxSceneIds)

\* a push that gives a failed scene a placeholder image next to its error
Wizard_SceneSettled_placeholder(scene, r) ==
    IF r.ok THEN [scene EXCEPT !.imageUrl = r.value]
    ELSE [scene EXCEPT !.imageUrl = "placeholder.png",
                       !.imageError = MessageOr(r.value, "Image generation failed")]

\* updatedScenes.push(...) after generateSceneImageWithReferences settles
Wizard_SceneSettled(scene, r) ==
    IF r.ok THEN [scene EXCEPT !.imageUrl = r.value]
    ELSE [scene EXCEPT !.imageError = MessageOr(r.value, "Image generation failed")]

\* what the forEach body pushes for one name of charactersInScene
Wizard_ReferenceOf(chars, name) ==
    LET k == FindIndex(chars, LAMBDA c : c.name = name /\ Truthy(c.approvedDesignUrl))
    IN  IF /\ k # 0
           /\ Truthy(getBase64FromDataUrl(chars[k].approvedDesignUrl))
           /\ Truthy(MimeMatch(chars[k].approvedDesignUrl))
        THEN <<[mimeType |-> MimeMatch(chars[k].approvedDesignUrl),
                data |-> getBase64FromDataUrl(chars[k].approvedDesignUrl)]>>
        ELSE <<>>

\* refImgParts after scene.charactersInScene.forEach(...)
RECURSIVE Wizard_refImgParts(_, _)
Wizard_refImgParts(chars, names) ==
    IF names = <<>> THEN <<>>
    ELSE Wizard_ReferenceOf(chars, Head(names)) \o Wizard_refImgParts(chars, Tail(names))

\* one turn of the image loop of handleGenerateStoryboard
Wizard_SettleSceneImage ==
    /\ app = "wizard"
    /\ \E t \in 1..Len(tasks) :
        /\ tasks[t].kind = "sceneImages"
        /\ \E r \in Returned(SceneUrls) \cup Raised :
            LET scene == Wizard_SceneSettled(tasks[t].initialScenes[tasks[t].i], r)
            IN  /\ scenes' = Phase_ReplaceScene(scenes, scene)
                /\ IF tasks[t].i < Len(tasks[t].initialScenes)
                   THEN /\ tasks' = [tasks EXCEPT ![t].updated = Append(@, scene), ![t].i = @ + 1]
                        /\ UNCHANGED operationStatus
                   ELSE /\ operationStatus' = "SUCCESS"
                        /\ tasks' = RemoveAt(tasks, t)
                /\ last' = [Snapshot("settleSceneImage", tasks[t].initialScenes[tasks[t].i].id)
                                EXCEPT !.raised = ~r.ok,
                                       !.references = Wizard_refImgParts(tasks[t].chars,
                                            tasks[t].initialScenes[tasks[t].i].charactersInScene)]
    /\ UNCHANGED <<storyText, characters, error, currentView, idCounter, sceneIdCounter>>
    /\ Wizard_Frame

\* the completions of the calls in flight
Wizard_Settle ==
    \/ Wizard_SettleExtractCharacters
    \/ Wizard_SettleDesignOfAll
    \/ Wizard_SettleDesignOfSingle
    \/ Wizard_SettleDeconstructStory
    \/ Wizard_SettleSceneImage

\* the steps of the wizard through its rendered, enabled controls; the
\* handlers named in free are invoked in any state.  "Generate Missing Design
\* Sheets" is rendered only for a named character without design, error or
\* loading flag, which these steps never produce: its handler is a step of
\* the specifications that invoke it in any state
Wizard_Next(free) ==
    \/ Wizard_resetToWelcome(TRUE)
    \/ Wizard_dismissError(TRUE)
    \/ Wizard_navigate(TRUE)
    \/ Wizard_setStoryText(TRUE)
    \/ Wizard_addCharacter(TRUE)
    \/ Wizard_updateCharacterField(TRUE)
    \/ Wizard_removeCharacter(TRUE)
    \/ Wizard_handleStorySubmitted(TRUE)
    \/ Wizard_handleRegenerateSingleCharacterDesign("regenerateSingleCharacterDesign" \notin free)
    \/ Wizard_handleApproveCharacterDesign("approveCharacterDesign" \notin free)
    \/ Wizard_handlePreferencesSet(TRUE)
    \/ Wizard_handleGenerateStoryboard("buildStoryboard" \notin free)
    \/ Wizard_Settle

\* the wizard driven through its rendered controls
SpecWizardUI == Wizard_Init /\ [][Wizard_Next({})]_vars

\* the wizard driven through its rendered controls, with resetToWelcome
\* invoked in any state as well: the overlay of a running operation covers
\* the "New Story" button without disabling it
ResetInFlight_Next ==
    \/ Wizard_Next({})
    \/ Wizard_resetToWelcome(FALSE)

SpecResetInFlight == Wizard_Init /\ [][ResetInFlight_Next]_vars

\* both iterations, each driven through its rendered controls
SpecUI == (Phase_Init \/ Wizard_Init) /\ [][Phase_Next({}) \/ Wizard_Next({})]_vars

\* submitStory and its completion in both iterations, through the rendered
\* controls, with responses of up to MaxExtractedWide characters
Extraction_Next ==
    \/ Phase_setStoryText(TRUE)
    \/ Phase_handleExtractOrConfirmCharacters(TRUE)
    \/ Phase_ExtractionSettles(ExtractionResponsesWide, MaxCharIdsWide)
    \/ Wizard_resetToWelcome(TRUE)
    \/ Wizard_dismissError(TRUE)
    \/ Wizard_navigate(TRUE)
    \/ Wizard_setStoryText(TRUE)
    \/ Wizard_handleStorySubmitted(TRUE)
    \/ Wizard_ExtractionSettles(ExtractionResponsesWide, MaxCharIdsWide)

SpecExtraction == (Phase_Init \/ Wizard_Init) /\ [][Extraction_Next]_vars

\* extraction, addCharacter and removeCharacter in both iterations with
\* responses and registries beyond MAX_CHARACTERS; addCharacter is invoked in
\* any state, the other handlers through the rendered controls
RegistryCap_Next ==
    \/ Extraction_Next
    \/ Phase_AddsCharacter(FALSE, MaxCharIdsWide)
    \/ Phase_removeCharacter(TRUE)
    \/ Wizard_AddsCharacter(FALSE, MaxCharIdsWide)
    \/ Wizard_removeCharacter(TRUE)

SpecRegistryCap == (Phase_Init \/ Wizard_Init) /\ [][RegistryCap_Next]_vars

\* the phase machine from the story to the storyboard with the characters the
\* extraction suggests, up to a full registry, through the rendered controls
FullRegistry_Next ==
    \/ Phase_setStoryText(TRUE)
    \/ Phase_handleExtractOrConfirmCharacters(TRUE)
    \/ Phase_ExtractionSettles(BoundedSeq(ExtractedInfos, MaxExtractedWide), MaxCharIdsWide)
    \/ Phase_handleGenerateAllCharacterDesigns(TRUE)
    \/ Phase_handleGenerateSingleCharacterDesign(TRUE)
    \/ Phase_handleApproveCharacterDesign(TRUE)
    \/ Phase_handleGenerateVisualStory(TRUE)
    \/ Phase_SettleDesignOfAll
    \/ Phase_SettleDesignOfSingle
    \/ Phase_SettleDeconstructStory
    \/ Phase_SettleSceneImage

SpecFullRegistry == Phase_Init /\ [][FullRegistry_Next]_vars

\* both iterations from the story to the storyboard with the characters the
\* extraction suggests, through the rendered controls, with responses of up to
\* MaxScenesWide scenes of two kinds
Storyboard_Next ==
    \/ Phase_setStoryText(TRUE)
    \/ Phase_handleExtractOrConfirmCharacters(TRUE)
    \/ Phase_SettleExtractCharacters
    \/ Phase_handleGenerateAllCharacterDesigns(TRUE)
    \/ Phase_SettleDesignOfAll
    \/ Phase_handleApproveCharacterDesign(TRUE)
    \/ Phase_handleGenerateVisualStory(TRUE)
    \/ Phase_DeconstructionSettles(DeconstructionOutcomesWide, MaxSceneIdsWide)
    \/ Phase_SettleSceneImage
    \/ Wizard_resetToWelcome(TRUE)
    \/ Wizard_dismissError(TRUE)
    \/ Wizard_navigate(TRUE)
    \/ Wizard_setStoryText(TRUE)
    \/ Wizard_handleStorySubmitted(TRUE)
    \/ Wizard_SettleExtractCharacters
    \/ Wizard_handlePreferencesSet(TRUE)
    \/ Wizard_SettleDesignOfAll
    \/ Wizard_handleApproveCharacterDesign(TRUE)
    \/ Wizard_handleGenerateStoryboard(TRUE)
    \/ Wizard_DeconstructionSettles(DeconstructionOutcomesWide, MaxSceneIdsWide)
    \/ Wizard_SettleSceneImage

SpecStoryboard == (Phase_Init \/ Wizard_Init) /\ [][Storyboard_Next]_vars

\* both iterations with buildStoryboard invoked in any state
SpecBuildStoryboard ==
    (Phase_Init \/ Wizard_Init)
        /\ [][Phase_Next({"buildStoryboard"}) \/ Wizard_Next({"buildStoryboard"})]_vars

(***************************************************************************)
(* The first iteration (src/App.tsx lines 22-227 with its StoryInputForm). *)
(* The CharacterInput of this iteration is not in the repository: what is  *)
(* known of a card is the callbacks the form hands it.  While the phase is *)
(* a loading one the fixed full-screen overlay lies over the form.         *)
(***************************************************************************)
First_Init ==
    /\ app = "first"
    /\ storyText = ""
    /\ characters = <<>>
    /\ scenes = <<>>
    /\ \/ currentPhase = "IDLE" /\ error = Null
       \/ currentPhase = "ERROR" /\ error = "API Key is missing"
    /\ userHasInteractedWithChars = FALSE
    /\ currentView = "none"
    /\ operationStatus = "none"
    /\ tasks = <<>>
    /\ isLoadingStory = FALSE
    /\ isLoadingImages = FALSE
    /\ apiKey = TRUE
    /\ idCounter = 1
    /\ sceneIdCounter = 1
    /\ last = [op |-> "init", arg |-> 0, currentPhase |-> currentPhase, characters |-> <<>>,
               scenes |-> <<>>, storyText |-> "", ntasks |-> 0,
               operationStatus |-> "none", currentView |-> "none", error |-> error, sel |-> {},
               response |-> <<>>, raised |-> FALSE, references |-> <<>>, forced |-> 0]

First_Frame ==
    UNCHANGED <<app, currentView, operationStatus, userHasInteractedWithChars,
                isLoadingStory, isLoadingImages, apiKey>>

\* App: isLoading
First_isLoading ==
    currentPhase \in {"GENERATING_CHARACTER_DESIGNS", "DECONSTRUCTING_STORY", "GENERATING_SCENE_IMAGES"}

\* StoryInputForm: the textarea's onChange
First_setStoryText(ui) ==
    /\ app = "first" /\ UserMayAct
    /\ ui => ~(First_isLoading \/ currentPhase = "GENERATING_CHARACTER_DESIGNS"
                               \/ currentPhase = "AWAITING_CHARACTER_APPROVAL")
    /\ \E v \in StoryTexts :
        /\ v # storyText
        /\ storyText' = v
        /\ last' = Edited("setStoryText", 0)
    /\ UNCHANGED <<characters, scenes, currentPhase, error, tasks, idCounter, sceneIdCounter>>
    /\ First_Frame

\* StoryInputForm: addCharacter
First_addCharacter(ui) ==
    /\ app = "first" /\ UserMayAct
    /\ ui => (Len(characters) < MAX_CHARACTERS /\ ~First_isLoading)
    /\ IF Len(characters) < MAX_CHARACTERS
       THEN /\ idCounter <= MaxCharIds
            /\ characters' = Append(characters, Phase_NewCharacter(idCounter))
            /\ idCounter' = idCounter + 1
       ELSE UNCHANGED <<characters, idCounter>>
    /\ last' = Edited("addCharacter", 0)
    /\ UNCHANGED <<storyText, scenes, currentPhase, error, tasks, sceneIdCounter>>
    /\ First_Frame

\* StoryInputForm: updateCharacter(index, updatedCharacter), with the card
\* handing back its character with one text field changed
First_updateCharacter(ui) ==
    /\ app = "first" /\ UserMayAct
    /\ ui => ~First_isLoading
    /\ \E k \in 1..Len(characters), field \in {"name", "appearance"} :
        \E v \in (IF field = "name" THEN CharNames ELSE Appearances) \ {characters[k][field]} :
            /\ characters' = [characters EXCEPT ![k] = [@ EXCEPT ![field] = v]]
            /\ last' = Edited("updateCharacter", characters[k].id)
    /\ UNCHANGED <<storyText, scenes, currentPhase, error, tasks, idCounter, sceneIdCounter>>
    /\ First_Frame

\* StoryInputForm: removeCharacter(id)
First_removeCharacter(ui) ==
    /\ app = "first" /\ UserMayAct
    /\ ui => ~First_isLoading
    /\ \E k \in 1..Len(characters) :
        /\ characters' = SelectSeq(characters, LAMBDA c : c.id # characters[k].id)
        /\ last' = Edited("removeCharacter", characters[k].id)
    /\ UNCHANGED <<storyText, scenes, currentPhase, error, tasks, idCounter, sceneIdCounter>>
    /\ First_Frame

\* the setCharacters updater of the form's handleApproveCharacterDesign,
\* which moves generatedDesignUrl whether it is set or not
First_ApproveIn(chars, characterId) ==
    Map(chars, LAMBDA c :
        IF c.id = characterId
        THEN [c EXCEPT !.approvedDesignUrl = c.generatedDesignUrl, !.generatedDesignUrl = Undefined,
                       !.designError = Undefined]
        ELSE c)

\* StoryInputForm: handleApproveCharacterDesign(charId), the card's onApproveDesign
First_handleApproveCharacterDesign(ui) ==
    /\ app = "first" /\ UserMayAct
    /\ ui => ~First_isLoading
    /\ \E characterId \in Ids(characters) :
        /\ characters' = First_ApproveIn(characters, characterId)
        /\ last' = Snapshot("approveCharacterDesign", characterId)
    /\ UNCHANGED <<storyText, scenes, currentPhase, error, tasks, idCounter, sceneIdCounter>>
    /\ First_Frame

\* the filter of handleGenerateCharacterDesigns
First_charactersToProcess(chars) ==
    SelectSeq(chars, LAMBDA c : Trim(c.name) # "" /\ ~Truthy(c.approvedDesignUrl))

\* StoryInputForm: the "Generate Character Designs" button
First_offersGenerateCharacterDesigns ==
    /\ Len(characters) > 0
    /\ Some(characters, LAMBDA c : Trim(c.name) # "" /\ ~Truthy(c.approvedDesignUrl))
    /\ ~First_isLoading
    /\ currentPhase # "GENERATING_CHARACTER_DESIGNS"

\* handleGenerateCharacterDesigns up to its await: charactersToProcess.map
\* runs every async callback to its own await, so every selected character
\* is marked loading and has its call issued before the handler waits
First_handleGenerateCharacterDesigns(ui) ==
    /\ app = "first" /\ UserMayAct
    /\ ui => First_offersGenerateCharacterDesigns
    /\ LET charactersToProcess == First_charactersToProcess(characters)
       IN  IF currentPhase = "ERROR"
           THEN UNCHANGED <<error, currentPhase, characters, tasks>>
           ELSE IF charactersToProcess = <<>>
           THEN /\ error' = Null
                /\ currentPhase' = "AWAITING_CHARACTER_APPROVAL"
                /\ UNCHANGED <<characters, tasks>>
           ELSE /\ Len(tasks) + Len(charactersToProcess) <= MaxTasks
                /\ error' = Null
                /\ currentPhase' = "GENERATING_CHARACTER_DESIGNS"
                /\ characters' = Phase_MarkLoading(characters, Ids(charactersToProcess))
                /\ tasks' = tasks \o [k \in 1..Len(charactersToProcess) |->
                                        [NoTask EXCEPT !.kind = "designOne",
                                                       !.charId = charactersToProcess[k].id,
                                                       !.queue = charactersToProcess]]
    /\ last' = Invoked(ui, First_offersGenerateCharacterDesigns, Snapshot("generateCharacterDesigns", 0))
    /\ UNCHANGED <<storyText, scenes, idCounter, sceneIdCounter>>
    /\ First_Frame

\* one design call of the batch settles; Promise.all resolves with the last
First_SettleDesignOfBatch ==
    /\ app = "first"
    /\ \E t \in 1..Len(tasks) :
        /\ tasks[t].kind = "designOne"
        /\ \E r \in Returned(DesignUrls) \cup Raised :
            /\ characters' = Phase_DesignSettled(characters, tasks[t].charId, r)
            /\ tasks' = RemoveAt(tasks, t)
            /\ currentPhase' =
                  IF \E u \in 1..Len(tasks) : u # t /\ tasks[u].kind = "designOne" /\ tasks[u].queue = tasks[t].queue
                  THEN currentPhase
                  ELSE "AWAITING_CHARACTER_APPROVAL"
            /\ last' = [Snapshot("settleDesignOfBatch", tasks[t].charId) EXCEPT !.sel = Ids(tasks[t].queue)]
    /\ UNCHANGED <<storyText, scenes, error, idCounter, sceneIdCounter>>
    /\ First_Frame

\* StoryInputForm: canGenerateStoryboard
First_canGenerateStoryboard ==
    /\ Trim(storyText) # ""
    /\ Every(characters, LAMBDA c : Truthy(c.approvedDesignUrl) \/ Trim(c.name) = "")

\* StoryInputForm: the "Generate Visual Storyboard" button
First_offersGenerateVisualStory ==
    ~(~First_canGenerateStoryboard \/ First_isLoading \/ currentPhase = "GENERATING_CHARACTER_DESIGNS")

\* unapprovedChars.length > 0 in handleGenerateVisualStory
First_GateFails(chars) ==
    Some(chars, LAMBDA c : Trim(c.name) # "" /\ Truthy(c.generatedDesignUrl) /\ ~Truthy(c.approvedDesignUrl))

\* handleGenerateVisualStory up to its first await; the task keeps the
\* currentPhase of the closure for the finally block
First_handleGenerateVisualStory(ui) ==
    /\ app = "first" /\ UserMayAct
    /\ ui => First_offersGenerateVisualStory
    /\ IF currentPhase = "ERROR"
       THEN UNCHANGED <<error, currentPhase, scenes, tasks>>
       ELSE IF Trim(storyText) = ""
       THEN /\ error' = "Please enter a story."
            /\ UNCHANGED <<currentPhase, scenes, tasks>>
       ELSE IF First_GateFails(characters)
       THEN /\ error' = "Please approve or regenerate designs for all characters"
            /\ currentPhase' = "AWAITING_CHARACTER_APPROVAL"
            /\ UNCHANGED <<scenes, tasks>>
       ELSE /\ Room
            /\ error' = Null
            /\ scenes' = <<>>
            /\ currentPhase' = "DECONSTRUCTING_STORY"
            /\ tasks' = Append(tasks, [NoTask EXCEPT !.kind = "deconstructStory", !.chars = characters,
                                                     !.phase = currentPhase])
    /\ last' = Invoked(ui, First_offersGenerateVisualStory, Snapshot("generateVisualStory", 0))
    /\ UNCHANGED <<storyText, characters, idCounter, sceneIdCounter>>
    /\ First_Frame

\* the finally block of handleGenerateVisualStory: the phase the handler last
\* set stands only if the closure's currentPhase was ERROR or COMPLETE
First_Finally(closurePhase, phaseSet) ==
    IF closurePhase # "ERROR" /\ closurePhase # "COMPLETE" THEN "IDLE" ELSE phaseSet

\* handleGenerateVisualStory after deconstructStoryAndCreatePrompts settles,
\* up to the first generateSceneImageWithReferences call
First_SettleDeconstructStory ==
    /\ app = "first"
    /\ \E t \in 1..Len(tasks) :
        /\ tasks[t].kind = "deconstructStory"
        /\ \E r \in DeconstructionOutcomes :
            /\ IF ~r.ok
               THEN /\ error' = "An error occurred: " \o MessageOr(r.value, "Unknown error")
                    /\ currentPhase' = First_Finally(tasks[t].phase, "ERROR")
                    /\ tasks' = RemoveAt(tasks, t)
                    /\ UNCHANGED <<scenes, sceneIdCounter>>
               ELSE IF Len(r.value) = 0
               THEN /\ error' = "Failed to deconstruct story or no scenes were found."
                    /\ currentPhase' = First_Finally(tasks[t].phase, "IDLE")
                    /\ tasks' = RemoveAt(tasks, t)
                    /\ UNCHANGED <<scenes, sceneIdCounter>>
               ELSE /\ sceneIdCounter + Len(r.value) - 1 <= MaxSceneIds
                    /\ scenes' = Phase_InitialScenes(r.value, sceneIdCounter)
                    /\ sceneIdCounter' = sceneIdCounter + Len(r.value)
                    /\ currentPhase' = "GENERATING_SCENE_IMAGES"
                    /\ tasks' = [tasks EXCEPT ![t] = [@ EXCEPT !.kind = "sceneImages",
                                                               !.initialScenes = scenes',
                                                               !.updated = <<>>, !.i = 1]]
                    /\ UNCHANGED error
            /\ last' = Snapshot("settleDeconstructStory", 0)
    /\ UNCHANGED <<storyText, characters, idCounter>>
    /\ First_Frame

\* one turn of the image loop of handleGenerateVisualStory
First_SettleSceneImage ==
    /\ app = "first"
    /\ \E t \in 1..Len(tasks) :
        /\ tasks[t].kind = "sceneImages"
        /\ \E r \in Returned(SceneUrls) \cup Raised :
            LET scene == Phase_SceneSettled(tasks[t].initialScenes[tasks[t].i], r)
                updatedScenesWithImages == Append(tasks[t].updated, scene)
            IN  /\ IF tasks[t].i < Len(tasks[t].initialScenes)
                   THEN /\ scenes' = Phase_ReplaceScene(scenes, scene)
                        /\ tasks' = [tasks EXCEPT ![t].updated = updatedScenesWithImages, ![t].i = @ + 1]
                        /\ UNCHANGED currentPhase
                   ELSE /\ scenes' = updatedScenesWithImages
                        /\ currentPhase' = First_Finally(tasks[t].phase, "COMPLETE")
                        /\ tasks' = RemoveAt(tasks, t)
                /\ last' = [Snapshot("settleSceneImage", tasks[t].initialScenes[tasks[t].i].id)
                                EXCEPT !.raised = ~r.ok]
    /\ UNCHANGED <<storyText, characters, error, idCounter, sceneIdCounter>>
    /\ First_Frame

\* the completions of the calls in flight
First_Settle ==
    \/ First_SettleDesignOfBatch
    \/ First_SettleDeconstructStory
    \/ First_SettleSceneImage

\* the steps of the first iteration through its form; the handlers named in
\* free are invoked in any state
First_Next(free) ==
    \/ First_setStoryText(TRUE)
    \/ First_addCharacter(TRUE)
    \/ First_updateCharacter(TRUE)
    \/ First_removeCharacter(TRUE)
    \/ First_handleApproveCharacterDesign(TRUE)
    \/ First_handleGenerateCharacterDesigns(TRUE)
    \/ First_handleGenerateVisualStory("buildStoryboard" \notin free)
    \/ First_Settle

\* the first iteration driven through its form
SpecFirstUI == First_Init /\ [][First_Next({})]_vars

\* the first iteration with handleGenerateVisualStory invoked in any state
SpecFirstBuildStoryboard == First_Init /\ [][First_Next({"buildStoryboard"})]_vars

(***************************************************************************)
(* The iteration without character designs (src/unnamed/part_002, App.tsx  *)
(* with components/StoryInputForm.tsx): a story is deconstructed and its   *)
(* scenes are illustrated one after the other.                             *)
(***************************************************************************)
Basic_Init ==
    /\ app = "basic"
    /\ storyText = ""
    /\ characters = <<>>
    /\ scenes = <<>>
    /\ error = Null
    /\ isLoadingStory = FALSE
    /\ isLoadingImages = FALSE
    /\ apiKey \in BOOLEAN
    /\ currentPhase = "none"
    /\ userHasInteractedWithChars = FALSE
    /\ currentView = "none"
    /\ operationStatus = "none"
    /\ tasks = <<>>
    /\ idCounter = 1
    /\ sceneIdCounter = 1
    /\ last = [op |-> "init", arg |-> 0, currentPhase |-> "none", characters |-> <<>>,
               scenes |-> <<>>, storyText |-> "", ntasks |-> 0,
               operationStatus |-> "none", currentView |-> "none", error |-> Null, sel |-> {},
               response |-> <<>>, raised |-> FALSE, references |-> <<>>, forced |-> 0]

Basic_Frame ==
    UNCHANGED <<app, characters, currentPhase, userHasInteractedWithChars, currentView,
                operationStatus, apiKey, idCounter>>

\* App: showLoadingOverlay, which is also the isLoading prop of the form
Basic_showLoadingOverlay == isLoadingStory \/ isLoadingImages

\* StoryInputForm: the textarea's onChange
Basic_setStoryText(ui) ==
    /\ app = "basic" /\ UserMayAct
    /\ ui => ~Basic_showLoadingOverlay
    /\ \E v \in StoryTexts :
        /\ v # storyText
        /\ storyText' = v
        /\ last' = Edited("setStoryText", 0)
    /\ UNCHANGED <<scenes, error, isLoadingStory, isLoadingImages, tasks, sceneIdCounter>>
    /\ Basic_Frame

\* StoryInputForm: the "Generate Visual Story" button
Basic_offersGenerateVisualStory == ~(Basic_showLoadingOverlay \/ Trim(storyText) = "")

\* handleGenerateVisualStory up to its first await
Basic_handleGenerateVisualStory(ui) ==
    /\ app = "basic" /\ UserMayAct
    /\ ui => Basic_offersGenerateVisualStory
    /\ IF Trim(storyText) = ""
       THEN /\ error' = "Please enter a story."
            /\ UNCHANGED <<scenes, isLoadingStory, tasks>>
       ELSE IF ~apiKey
       THEN /\ error' = "API Key is missing."
            /\ UNCHANGED <<scenes, isLoadingStory, tasks>>
       ELSE /\ Room
            /\ error' = Null
            /\ scenes' = <<>>
            /\ isLoadingStory' = TRUE
            /\ tasks' = Append(tasks, [NoTask EXCEPT !.kind = "deconstructStory"])
    /\ last' = Invoked(ui, Basic_offersGenerateVisualStory, Snapshot("generateVisualStory", 0))
    /\ UNCHANGED <<storyText, isLoadingImages, sceneIdCounter>>
    /\ Basic_Frame

\* handleGenerateVisualStory after deconstructStoryAndCreatePrompts settles,
\* up to the first generateImageForScene call
Basic_SettleDeconstructStory ==
    /\ app = "basic"
    /\ \E t \in 1..Len(tasks) :
        /\ tasks[t].kind = "deconstructStory"
        /\ \E r \in DeconstructionOutcomesWide :
            /\ IF ~r.ok
               THEN /\ error' = "An error occurred: " \o MessageOr(r.value, "Unknown error")
                    /\ isLoadingStory' = FALSE
                    /\ isLoadingImages' = FALSE
                    /\ tasks' = RemoveAt(tasks, t)
                    /\ UNCHANGED <<scenes, sceneIdCounter>>
               ELSE IF Len(r.value) = 0
               THEN /\ error' = "Failed to deconstruct story or no scenes were found."
                    /\ isLoadingStory' = FALSE
                    /\ isLoadingImages' = FALSE
                    /\ tasks' = RemoveAt(tasks, t)
                    /\ UNCHANGED <<scenes, sceneIdCounter>>
               ELSE /\ sceneIdCounter + Len(r.value) - 1 <= MaxSceneIdsWide
                    /\ scenes' = Phase_InitialScenes(r.value, sceneIdCounter)
                    /\ sceneIdCounter' = sceneIdCounter + Len(r.value)
                    /\ isLoadingStory' = FALSE
                    /\ isLoadingImages' = TRUE
                    /\ tasks' = [tasks EXCEPT ![t] = [@ EXCEPT !.kind = "sceneImages",
                                                               !.initialScenes = scenes',
                                                               !.updated = <<>>, !.i = 1]]
                    /\ UNCHANGED error
            /\ last' = [Snapshot("settleDeconstructStory", 0) EXCEPT
                            !.response = IF r.ok THEN r.value ELSE <<>>, !.raised = ~r.ok]
    /\ UNCHANGED storyText
    /\ Basic_Frame

\* a progressive list that shows the scenes still to come first
Basic_Progress_remainingFirst(updatedScenesWithImages, initialScenes, i) ==
    SubSeq(initialScenes, i + 1, Len(initialScenes)) \o updatedScenesWithImages

\* [...updatedScenesWithImages, ...initialScenes.slice(i + 1)], i counted from 1
Basic_Progress(updatedScenesWithImages, initialScenes, i) ==
    updatedScenesWithImages \o SubSeq(initialScenes, i + 1, Len(initialScenes))

\* one turn of the image loop of handleGenerateVisualStory; after the last
\* turn the final setScenes and the finally block
Basic_SettleSceneImage ==
    /\ app = "basic"
    /\ \E t \in 1..Len(tasks) :
        /\ tasks[t].kind = "sceneImages"
        /\ \E r \in Returned(SceneUrls) \cup Raised :
            LET scene == Phase_SceneSettled(tasks[t].initialScenes[tasks[t].i], r)
                updatedScenesWithImages == Append(tasks[t].updated, scene)
            IN  /\ IF tasks[t].i < Len(tasks[t].initialScenes)
                   THEN /\ scenes' = Basic_Progress(updatedScenesWithImages, tasks[t].initialScenes,
                                                    tasks[t].i)
                        /\ tasks' = [tasks EXCEPT ![t].updated = updatedScenesWithImages, ![t].i = @ + 1]
                        /\ UNCHANGED isLoadingImages
                   ELSE /\ scenes' = updatedScenesWithImages
                        /\ isLoadingImages' = FALSE
                        /\ tasks' = RemoveAt(tasks, t)
                /\ last' = [Snapshot("settleSceneImage", tasks[t].initialScenes[tasks[t].i].id)
                                EXCEPT !.raised = ~r.ok]
    /\ UNCHANGED <<storyText, error, isLoadingStory, sceneIdCounter>>
    /\ Basic_Frame

\* the steps of this iteration through its form; handleGenerateVisualStory
\* is invoked in any state when free names it
Basic_Next(free) ==
    \/ Basic_setStoryText(TRUE)
    \/ Basic_handleGenerateVisualStory("buildStoryboard" \notin free)
    \/ Basic_SettleDeconstructStory
    \/ Basic_SettleSceneImage

\* this iteration driven through its form
SpecBasicUI == Basic_Init /\ [][Basic_Next({})]_vars

\* this iteration with handleGenerateVisualStory invoked in any state
SpecBasicBuildStoryboard == Basic_Init /\ [][Basic_Next({"buildStoryboard"})]_vars

\* the phase machine and the wizard with handleGenerateAllCharacterDesigns
\* invoked in any state
SpecGenerateAll ==
    /\ Phase_Init \/ Wizard_Init
    /\ [][\/ Phase_Next({"generateAllCharacterDesigns"})
          \/ Wizard_Next({})
          \/ Wizard_handleGenerateAllCharacterDesigns(FALSE)]_vars

\* the phase machine with handleGenerateSingleCharacterDesign invoked in any
\* state and with any id
SpecGenerateSingle == Phase_Init /\ [][Phase_Next({"generateSingleCharacterDesign"})]_vars

\* the wizard with handleRegenerateSingleCharacterDesign invoked in any
\* state and with any id
SpecRegenerateSingle == Wizard_Init /\ [][Wizard_Next({"regenerateSingleCharacterDesign"})]_vars

\* the phase machine and the wizard with handleApproveCharacterDesign invoked
\* in any state and with any id
SpecApprove ==
    /\ Phase_Init \/ Wizard_Init
    /\ [][Phase_Next({"approveCharacterDesign"}) \/ Wizard_Next({"approveCharacterDesign"})]_vars

(***************************************************************************)
(* Properties.                                                             *)
(***************************************************************************)
\* some character with a non-empty trimmed name has no approved design
NamedUnapproved(chars) ==
    \E k \in 1..Len(chars) : Trim(chars[k].name) # "" /\ chars[k].approvedDesignUrl \notin DesignUrls

\* C1: in every state where some named character has no approved design,
\* invoking buildStoryboard (handleGenerateVisualStory of the phase machine,
\* handleGenerateStoryboard of the wizard) issues no AIGateway call and does
\* not enter the deconstruction phase; and a deconstructStory call in flight
\* was issued with every named character approved
C1_ApprovalGate ==
    /\ (last.op \in {"generateVisualStory", "generateStoryboard"} /\ NamedUnapproved(last.characters))
          => /\ Len(tasks) = last.ntasks
             /\ currentPhase # "DECONSTRUCTING_STORY"
             /\ operationStatus # "LOADING"
             /\ scenes = last.scenes
    /\ \A t \in 1..Len(tasks) :
          tasks[t].kind = "deconstructStory" => ~NamedUnapproved(tasks[t].chars)

\* C1 witness: the phase machine's gate has just rejected a storyboard for a
\* story with a named, never approved character, outside the ERROR phase
C1_Witness ==
    /\ app = "phase"
    /\ last.op = "generateVisualStory"
    /\ last.currentPhase # "ERROR"
    /\ Trim(last.storyText) # ""
    /\ NamedUnapproved(last.characters)
    /\ error = "Please approve designs for all named characters"

\* the wizard's gate has just rejected a storyboard
C1_WitnessWizard ==
    /\ app = "wizard"
    /\ last.op = "generateStoryboard"
    /\ NamedUnapproved(last.characters)
    /\ error = "Please approve all named character designs before generating the storyboard."

\* the phase machine's handleGenerateVisualStory has just been rejected by its gate
C2_Rejected ==
    /\ app = "phase"
    /\ last.op = "generateVisualStory"
    /\ last.currentPhase # "ERROR"
    /\ Trim(last.storyText) # ""
    /\ NamedUnapproved(last.characters)

C3_FirstApprovalGate ==
    (app = "first" /\ last.op = "generateVisualStory" /\ NamedUnapproved(last.characters))
        => /\ Len(tasks) = last.ntasks
           /\ currentPhase # "DECONSTRUCTING_STORY"
           /\ scenes = last.scenes

\* C5: in the first iteration at most one design call of
\* handleGenerateCharacterDesigns is in flight: the call for a character is
\* issued only after the call of the previous selected character has settled.
C5_OneDesignCallAtATime ==
    app = "first" => Cardinality({t \in 1..Len(tasks) : tasks[t].kind = "designOne"}) <= 1


\* C4: in the phase machine driven through its controls, whatever the order
\* of user actions and completions, at most one AIGateway call is in flight.
C4_OneCallInFlight == app = "phase" => Len(tasks) <= 1

\* a design call issued for one character, and in flight, after an earlier
\* call has failed or an earlier design has been approved
C4_Witness ==
    /\ app = "phase"
    /\ last.op = "generateSingleCharacterDesign"
    /\ Len(tasks) = 1 /\ last.ntasks = 0
    /\ tasks[1].kind = "designSingle"
    /\ \E k \in 1..Len(characters) : Truthy(characters[k].designError) \/ Truthy(characters[k].approvedDesignUrl)

\* the design sub-states of a character after a batch
IsApproved(c) == Truthy(c.approvedDesignUrl)
IsGeneratedUnapproved(c) == Truthy(c.generatedDesignUrl) /\ ~Truthy(c.approvedDesignUrl)
IsFailedUnloading(c) ==
    /\ Truthy(c.designError) /\ ~c.isDesignLoading
    /\ ~Truthy(c.generatedDesignUrl) /\ ~Truthy(c.approvedDesignUrl)

\* C6: when handleGenerateAllCharacterDesigns has ended, every character of
\* its selection is not loading and is in exactly one of: approved;
\* generated and unapproved; failed with designError set.
C6_BatchLeavesSettled ==
    last.op = "endGenerateAllCharacterDesigns" =>
        \A k \in 1..Len(characters) :
            characters[k].id \in last.sel =>
                /\ ~characters[k].isDesignLoading
                /\ Cardinality({b \in {<<1, IsApproved(characters[k])>>,
                                       <<2, IsGeneratedUnapproved(characters[k])>>,
                                       <<3, IsFailedUnloading(characters[k])>>} : b[2]}) = 1

\* a batch of the phase machine that ended with one success and one failure
C6_Witness ==
    /\ app = "phase"
    /\ last.op = "endGenerateAllCharacterDesigns"
    /\ \E j, k \in 1..Len(characters) :
        /\ {characters[j].id, characters[k].id} \subseteq last.sel
        /\ IsGeneratedUnapproved(characters[j])
        /\ IsFailedUnloading(characters[k])

\* a batch of the wizard that ended with a failure
C6_WitnessWizard ==
    /\ app = "wizard"
    /\ last.op = "endGenerateAllCharacterDesigns"
    /\ \E k \in 1..Len(characters) : characters[k].id \in last.sel /\ IsFailedUnloading(characters[k])


\* a batch of the phase machine is running
C7_BatchRunning == app = "phase" /\ \E t \in 1..Len(tasks) : tasks[t].kind = "designAll"

\* what a turn of the batch has done to the registry: the character whose
\* call settled has its result or its designError, the others are untouched
C7_TurnTouchesOneCharacter ==
    (app = "phase" /\ last.op \in {"settleDesignOfAll", "endGenerateAllCharacterDesigns"}) =>
        /\ Len(characters) = Len(last.characters)
        /\ \A k \in 1..Len(characters) :
            IF characters[k].id # last.arg
            THEN characters[k] = last.characters[k]
            ELSE \/ characters[k] = [last.characters[k] EXCEPT !.designError = "quota", !.isDesignLoading = FALSE]
                 \/ \E u \in DesignUrls :
                       characters[k] = [last.characters[k] EXCEPT !.generatedDesignUrl = u, !.isDesignLoading = FALSE]
        /\ last.op = "settleDesignOfAll" => C7_BatchRunning
        /\ last.op = "endGenerateAllCharacterDesigns" => currentPhase = "AWAITING_CHARACTER_DESIGN_APPROVAL"

\* while characters of the selection are left, the step that settles a call
\* issues the call of the next character, whatever the outcome
C7_NextCallIssued ==
    \A t \in 1..Len(tasks) :
        (app = "phase" /\ tasks[t].kind = "designAll" /\ tasks[t].i < Len(tasks[t].queue)) =>
            /\ Len(tasks') >= t
            /\ tasks'[t].kind = "designAll"
            /\ tasks'[t].queue = tasks[t].queue
            /\ tasks'[t].i \in {tasks[t].i, tasks[t].i + 1}

\* C7: in a batch of the phase machine a failed design call sets the
\* designError of its character and touches no other character; every later
\* character of the selection still gets its call; the phase is never ERROR
\* during the batch and, with every call settling, it eventually becomes
\* AWAITING_CHARACTER_DESIGN_APPROVAL.
C7_BatchRunsToApproval ==
    /\ [](C7_TurnTouchesOneCharacter)
    /\ [](C7_BatchRunning => currentPhase = "GENERATING_CHARACTER_DESIGNS")
    /\ [][C7_NextCallIssued]_vars
    /\ (C7_BatchRunning ~> (~C7_BatchRunning /\ currentPhase = "AWAITING_CHARACTER_DESIGN_APPROVAL"))

\* a batch in which the call of the first character failed and the call of
\* a later character succeeded
C7_Witness ==
    /\ app = "phase"
    /\ last.op = "endGenerateAllCharacterDesigns"
    /\ currentPhase = "AWAITING_CHARACTER_DESIGN_APPROVAL"
    /\ \E j, k \in 1..Len(characters) :
        /\ j < k
        /\ {characters[j].id, characters[k].id} \subseteq last.sel
        /\ IsFailedUnloading(characters[j])
        /\ IsGeneratedUnapproved(characters[k])


\* no character is named, without an approved design and not loading
EmptySelection(chars) ==
    \A k \in 1..Len(chars) :
        ~(Trim(chars[k].name) # "" /\ ~Truthy(chars[k].approvedDesignUrl) /\ ~chars[k].isDesignLoading)

\* handleGenerateAllCharacterDesigns has been invoked with an empty selection
C8_InvokedOnEmptySelection ==
    last.op = "generateAllCharacterDesigns" /\ EmptySelection(last.characters)

\* C8 as stated: handleGenerateAllCharacterDesigns invoked with an empty
\* selection issues no call, leaves the registry unchanged and leaves the
\* phase (the wizard's status and view) exactly as it was.
C8_PhaseUnchanged ==
    C8_InvokedOnEmptySelection =>
        /\ Len(tasks) = last.ntasks
        /\ characters = last.characters
        /\ currentPhase = last.currentPhase
        /\ operationStatus = last.operationStatus
        /\ currentView = last.currentView

\* C8, amended: handleGenerateAllCharacterDesigns invoked with an empty
\* selection issues no call and leaves the registry and the scenes unchanged;
\* the wizard changes nothing at all; the phase machine, unless its phase is
\* ERROR, clears the error and sets AWAITING_CHARACTER_DESIGN_APPROVAL.
C8_EmptySelectionIssuesNothing ==
    C8_InvokedOnEmptySelection =>
        /\ Len(tasks) = last.ntasks
        /\ characters = last.characters
        /\ scenes = last.scenes
        /\ app = "wizard" =>
              /\ operationStatus = last.operationStatus
              /\ currentView = last.currentView
              /\ error = last.error
        /\ app = "phase" =>
              IF last.currentPhase = "ERROR"
              THEN currentPhase = "ERROR" /\ error = last.error
              ELSE currentPhase = "AWAITING_CHARACTER_DESIGN_APPROVAL" /\ error = Null

\* the phase machine was confirming characters with nothing to design, and
\* the invocation has moved it to the approval phase
C8_Witness ==
    /\ app = "phase"
    /\ C8_InvokedOnEmptySelection
    /\ last.currentPhase = "AWAITING_USER_CHARACTER_CONFIRMATION"
    /\ currentPhase = "AWAITING_CHARACTER_DESIGN_APPROVAL"

\* the wizard's handler invoked with an empty selection while a call is in flight
C8_WitnessWizard ==
    /\ app = "wizard"
    /\ C8_InvokedOnEmptySelection
    /\ operationStatus = "LOADING"
    /\ Len(last.characters) > 0

\* C9: handleApproveCharacterDesign(id) on a character whose
\* generatedDesignUrl is set moves it to approvedDesignUrl and clears
\* generatedDesignUrl and designError; on a character without one, or with an
\* id no character has, it changes nothing; in both cases no call is issued
\* and the other characters, the phase and the scenes are unchanged.
C9_ApproveMovesDesign ==
    last.op = "approveCharacterDesign" =>
        /\ Len(tasks) = last.ntasks
        /\ currentPhase = last.currentPhase
        /\ operationStatus = last.operationStatus
        /\ currentView = last.currentView
        /\ scenes = last.scenes
        /\ Len(characters) = Len(last.characters)
        /\ \A k \in 1..Len(characters) :
            IF last.characters[k].id = last.arg /\ Truthy(last.characters[k].generatedDesignUrl)
            THEN /\ characters[k].approvedDesignUrl = last.characters[k].generatedDesignUrl
                 /\ characters[k].generatedDesignUrl = Undefined
                 /\ characters[k].designError = Undefined
                 /\ characters[k].id = last.characters[k].id
                 /\ characters[k].name = last.characters[k].name
                 /\ characters[k].appearance = last.characters[k].appearance
                 /\ characters[k].isAiExtracted = last.characters[k].isAiExtracted
            ELSE characters[k] = last.characters[k]

\* an approval of a generated design next to another character
C9_Witness ==
    /\ last.op = "approveCharacterDesign"
    /\ Len(characters) = 2
    /\ \E k \in 1..2 :
        /\ last.characters[k].id = last.arg
        /\ last.characters[k].generatedDesignUrl \in DesignUrls
        /\ characters[k].approvedDesignUrl = last.characters[k].generatedDesignUrl

\* an approval invoked for a character that has no generated design
C9_WitnessNothingToApprove ==
    /\ last.op = "approveCharacterDesign"
    /\ \E k \in 1..Len(last.characters) :
        /\ last.characters[k].id = last.arg
        /\ ~Truthy(last.characters[k].generatedDesignUrl)
        /\ Truthy(last.characters[k].approvedDesignUrl)

\* an approval invoked with an id no character has
C9_WitnessUnknownId ==
    /\ last.op = "approveCharacterDesign" /\ last.arg = 0 /\ Len(characters) > 0

\* C10: in every reachable state and for every id, applying
\* handleApproveCharacterDesign(id) twice in a row gives the registry that
\* applying it once gives, and it touches nothing but the registry.
C10_ApproveIdempotent ==
    \A characterId \in Ids(characters) \cup {0} :
        /\ app = "phase" =>
              Phase_ApproveIn(Phase_ApproveIn(characters, characterId), characterId)
                  = Phase_ApproveIn(characters, characterId)
        /\ app = "wizard" =>
              Wizard_ApproveIn(Wizard_ApproveIn(characters, characterId), characterId)
                  = Wizard_ApproveIn(characters, characterId)

\* the phase machine after an approval that took effect: the state in which
\* the second application starts
C10_Witness ==
    /\ app = "phase"
    /\ last.op = "approveCharacterDesign"
    /\ characters # last.characters
    /\ \E k \in 1..Len(characters) :
        characters[k].id = last.arg /\ Truthy(characters[k].approvedDesignUrl)


\* handleGenerateSingleCharacterDesign has been invoked for a character that
\* was loading or approved
C11_InvokedOnLoadingOrApproved ==
    /\ app = "phase"
    /\ last.op = "generateSingleCharacterDesign"
    /\ \E k \in 1..Len(last.characters) :
        /\ last.characters[k].id = last.arg
        /\ last.characters[k].isDesignLoading \/ Truthy(last.characters[k].approvedDesignUrl)

\* C11: handleGenerateSingleCharacterDesign(id) of the phase machine, invoked
\* for a character that is loading or has an approved design, issues no call
\* and changes neither the registry nor the phase nor the error.
C11_SingleDesignRefused ==
    C11_InvokedOnLoadingOrApproved =>
        /\ Len(tasks) = last.ntasks
        /\ characters = last.characters
        /\ currentPhase = last.currentPhase
        /\ error = last.error

\* the handler invoked for a character whose design call is in flight
C11_Witness ==
    /\ C11_InvokedOnLoadingOrApproved
    /\ Len(tasks) = 1
    /\ \E k \in 1..Len(last.characters) :
        last.characters[k].id = last.arg /\ last.characters[k].isDesignLoading

\* the handler invoked for a character with an approved design
C11_WitnessApproved ==
    /\ C11_InvokedOnLoadingOrApproved
    /\ \E k \in 1..Len(last.characters) :
        last.characters[k].id = last.arg /\ Truthy(last.characters[k].approvedDesignUrl)


\* handleRegenerateSingleCharacterDesign has been invoked for a character
\* that was loading or approved
C12_InvokedOnLoadingOrApproved ==
    /\ app = "wizard"
    /\ last.op = "regenerateSingleCharacterDesign"
    /\ \E k \in 1..Len(last.characters) :
        /\ last.characters[k].id = last.arg
        /\ last.characters[k].isDesignLoading \/ Truthy(last.characters[k].approvedDesignUrl)

\* C12: handleRegenerateSingleCharacterDesign(id) of the wizard, invoked for
\* a character that is loading or has an approved design, issues no call and
\* keeps the character's approved design.
C12_RegenerateRefused ==
    C12_InvokedOnLoadingOrApproved =>
        /\ Len(tasks) = last.ntasks
        /\ \A k \in 1..Len(last.characters) :
              last.characters[k].id = last.arg =>
                  /\ Len(characters) >= k
                  /\ characters[k].approvedDesignUrl = last.characters[k].approvedDesignUrl

\* C12 for the approved character alone
C12_ApprovalRetained ==
    (C12_InvokedOnLoadingOrApproved /\ ~Wizard_ApiKeyBlocked) =>
        \A k \in 1..Len(last.characters) :
            (last.characters[k].id = last.arg /\ Truthy(last.characters[k].approvedDesignUrl)) =>
                /\ Len(characters) >= k
                /\ characters[k].approvedDesignUrl = last.characters[k].approvedDesignUrl


\* C13: in the phase machine a handler invoked in phase ERROR issues no call
\* and leaves the phase ERROR.
C13_ErrorIsAbsorbing ==
    (app = "phase" /\ last.currentPhase = "ERROR") =>
        /\ currentPhase = "ERROR"
        /\ Len(tasks) <= last.ntasks


\* the wizard was started without API key and has not been reset: status
\* ERROR stands with the API-key message, or with the banner dismissed (the
\* dismiss handler leaves status ERROR only under an API-key message)
C14_KeyMissingAtInvocation ==
    /\ app = "wizard"
    /\ last.operationStatus = "ERROR"
    /\ IncludesApiKey(last.error) \/ last.error = Null

\* C14: a handler of the wizard invoked while the API key is missing and the
\* session has not been reset issues no call, the error banner having been
\* dismissed or not.
C14_NoCallWithoutKey ==
    C14_KeyMissingAtInvocation => Len(tasks) <= last.ntasks

\* submitStory or buildStoryboard of the phase machine has just been invoked
\* with an empty or whitespace-only story
C15_InvokedOnBlankStory ==
    /\ app = "phase"
    /\ last.op \in {"extractOrConfirmCharacters", "generateVisualStory"}
    /\ last.storyText \in {"", " "}

\* C15 as stated: submitStory and buildStoryboard invoked with an empty or
\* whitespace-only story issue no call and leave the phase unchanged, from
\* whatever phase they are invoked
C15_BlankStoryKeepsPhase ==
    C15_InvokedOnBlankStory =>
        /\ Len(tasks) = last.ntasks
        /\ currentPhase = last.currentPhase

\* C15: submitStory and buildStoryboard invoked with an empty or
\* whitespace-only story issue no call and leave registry and scenes alone;
\* submitStory leaves the phase unchanged, buildStoryboard leaves it unchanged
\* in phase ERROR and sets it to AWAITING_STORY_INPUT from every other phase
C15_BlankStoryRejected ==
    C15_InvokedOnBlankStory =>
        /\ Len(tasks) = last.ntasks
        /\ characters = last.characters
        /\ scenes = last.scenes
        /\ last.op = "extractOrConfirmCharacters" =>
                /\ currentPhase = last.currentPhase
                /\ error = "Please enter a story first."
        /\ (last.op = "generateVisualStory" /\ last.currentPhase = "ERROR") =>
                /\ currentPhase = "ERROR"
                /\ error = last.error
        /\ (last.op = "generateVisualStory" /\ last.currentPhase # "ERROR") =>
                /\ currentPhase = "AWAITING_STORY_INPUT"
                /\ error = "Please enter a story."

\* C15 witness: buildStoryboard invoked with a whitespace-only story in a
\* phase other than AWAITING_STORY_INPUT and ERROR
C15_Witness ==
    /\ C15_InvokedOnBlankStory
    /\ last.op = "generateVisualStory"
    /\ last.storyText = " "
    /\ last.currentPhase \notin {"AWAITING_STORY_INPUT", "ERROR"}

\* C15 witness: submitStory invoked with an empty story while extracted
\* characters await confirmation
C15_WitnessSubmit ==
    /\ C15_InvokedOnBlankStory
    /\ last.op = "extractOrConfirmCharacters"
    /\ last.currentPhase = "AWAITING_USER_CHARACTER_CONFIRMATION"
    /\ last.characters # <<>>

\* extractCharacters, issued by submitStory on an empty registry, has just
\* returned at least one character
C16_ExtractionReturned ==
    /\ app \in {"phase", "wizard"}
    /\ last.op = "settleExtractCharacters"
    /\ last.characters = <<>>
    /\ Trim(last.storyText) # ""
    /\ Len(last.response) >= 1

C16_Kept == IF Len(last.response) < MAX_CHARACTERS THEN Len(last.response) ELSE MAX_CHARACTERS

\* C16: when extractCharacters returns n >= 1 characters to a submitStory on
\* an empty registry, the registry becomes the first min(n, MAX_CHARACTERS)
\* results in response order, each with isAiExtracted set and no design
\* sub-state, and the phase becomes AWAITING_USER_CHARACTER_CONFIRMATION (the
\* wizard shows the character-definition view, idle).
C16_RegistryFromExtraction ==
    C16_ExtractionReturned =>
        /\ Len(characters) = C16_Kept
        /\ \A k \in 1..C16_Kept :
            /\ characters[k].name = last.response[k].name
            /\ characters[k].appearance = last.response[k].appearance
            /\ characters[k].isAiExtracted
            /\ characters[k].generatedDesignUrl = Undefined
            /\ characters[k].approvedDesignUrl = Undefined
            /\ ~characters[k].isDesignLoading
            /\ characters[k].designError = Undefined
        /\ app = "phase" => currentPhase = "AWAITING_USER_CHARACTER_CONFIRMATION"
        /\ app = "wizard" => (currentView = "characterDefinition" /\ operationStatus = "IDLE")

\* C16 witness: the phase machine receives more than MAX_CHARACTERS characters,
\* not all alike
C16_Witness ==
    /\ C16_ExtractionReturned
    /\ app = "phase"
    /\ Len(last.response) > MAX_CHARACTERS
    /\ last.response[1] # last.response[2]

\* C16 witness: the wizard receives more than MAX_CHARACTERS characters
C16_WitnessWizard ==
    /\ C16_ExtractionReturned
    /\ app = "wizard"
    /\ Len(last.response) > MAX_CHARACTERS

\* extractCharacters of the phase machine has just returned no character, or
\* raised
C17_ExtractionEmptyOrFailed ==
    /\ app = "phase"
    /\ last.op = "settleExtractCharacters"
    /\ last.response = <<>>

\* a design can be asked for the character c through its card
C17_DesignCanBeAsked(c) ==
    /\ Phase_offersGenerateSingle(c.id)
    /\ ~Phase_SingleDesignRefused(characters, c.id)
    /\ ENABLED Phase_handleGenerateSingleCharacterDesign(TRUE)

\* C17: when extractCharacters returns an empty list or raises, the phase
\* machine ends in AWAITING_USER_CHARACTER_CONFIRMATION, where "Add Character
\* Manually" is enabled; and in that phase, while no design is being
\* generated, the design of every named character without approved design can
\* be asked for.
C17_ManualEntryStillPossible ==
    /\ C17_ExtractionEmptyOrFailed =>
            /\ currentPhase = "AWAITING_USER_CHARACTER_CONFIRMATION"
            /\ characters = <<>>
            /\ ENABLED Phase_addCharacter(TRUE)
    /\ (app = "phase" /\ currentPhase = "AWAITING_USER_CHARACTER_CONFIRMATION") =>
            \A k \in 1..Len(characters) :
                (/\ Trim(characters[k].name) # ""
                 /\ ~Truthy(characters[k].approvedDesignUrl)
                 /\ ~Some(characters, LAMBDA c : c.isDesignLoading))
                    => C17_DesignCanBeAsked(characters[k])

\* C17 witness: after an extraction that raised, a character has been added
\* by hand and named, and the call for its design is issued
C17_Witness ==
    /\ app = "phase"
    /\ last.op = "generateSingleCharacterDesign"
    /\ last.currentPhase = "AWAITING_USER_CHARACTER_CONFIRMATION"
    /\ last.error = "Character extraction failed: quota"
    /\ Len(tasks) > last.ntasks
    /\ Len(characters) = 1 /\ ~characters[1].isAiExtracted

\* C17 witness: the extraction has just returned an empty list
C17_WitnessEmpty ==
    /\ C17_ExtractionEmptyOrFailed
    /\ error = Null

\* extractCharacters of the wizard has just returned no character, or raised
C18_ExtractionEmptyOrFailed ==
    /\ app = "wizard"
    /\ last.op = "settleExtractCharacters"
    /\ last.response = <<>>

\* C18: when extractCharacters returns an empty list or raises, the wizard
\* shows the character-definition view and operationStatus is not ERROR.
C18_ManualEntryPermitted ==
    C18_ExtractionEmptyOrFailed =>
        /\ currentView = "characterDefinition"
        /\ operationStatus # "ERROR"

\* deconstructStory of the phase machine has just returned no scene
C19_EmptyDeconstruction ==
    /\ app = "phase"
    /\ last.op = "settleDeconstructStory"
    /\ error = "Failed to deconstruct story or no scenes were found."

\* some control of the form other than the story textarea is rendered and
\* enabled: a button of the form, or the remove button, the text fields, the
\* design button or the approve button of some card
C19_SomeControlEnabled ==
    \/ Phase_offersGenerateVisualStory
    \/ Phase_offersExtractOrConfirm
    \/ Phase_offersGenerateAll
    \/ Len(characters) < MAX_CHARACTERS /\ ~Phase_isLoading
    \/ \E k \in 1..Len(characters) :
        \/ ~(Phase_isReadOnly(characters[k]) \/ Phase_isGeneratingAnyCharacterDesigns)
        \/ ~Phase_isReadOnly(characters[k])
        \/ Phase_offersGenerateSingle(characters[k].id)
        \/ Phase_offersApprove(characters[k].id)

\* C19: when deconstructStory returns an empty scene list, no
\* generateSceneImage call is issued, the SceneTimeline stays empty, and the
\* phase is one that is not ERROR and from which buildStoryboard can be
\* started again through the enabled controls: the textarea, which changes
\* the story only, is not the only control left.
C19_RestartPossible ==
    C19_EmptyDeconstruction =>
        /\ Len(tasks) < last.ntasks
        /\ scenes = <<>>
        /\ currentPhase # "ERROR"
        /\ C19_SomeControlEnabled

\* deconstructStory of the phase machine has just raised
C20_DeconstructionRaised ==
    /\ app = "phase"
    /\ last.op = "settleDeconstructStory"
    /\ last.raised

\* C20: if deconstructStory raises during buildStoryboard, the phase becomes
\* ERROR with the message surfaced, no generateSceneImage call is issued, and
\* the SceneTimeline is empty.
C20_DeconstructionFailureIsFatal ==
    C20_DeconstructionRaised =>
        /\ currentPhase = "ERROR"
        /\ error = "Storyboard generation failed: quota"
        /\ Len(tasks) < last.ntasks
        /\ \A t \in 1..Len(tasks) : tasks[t].kind # "sceneImages"
        /\ scenes = <<>>

\* C20 witness: the call raises in a storyboard run started while the scenes
\* of an earlier run were shown
C20_Witness ==
    /\ C20_DeconstructionRaised
    /\ last.characters # <<>>
    /\ sceneIdCounter > 1

\* the ids and the summaries of a timeline, in its order
SceneIds(s) == [k \in 1..Len(s) |-> s[k].id]
SceneSummaries(s) == [k \in 1..Len(s) |-> s[k].sceneSummary]

\* the steps that clear or materialize the SceneTimeline
C21_ReplacingOps == {"generateVisualStory", "generateStoryboard", "settleDeconstructStory", "resetToWelcome"}

\* C21: the SceneTimeline is materialized in the order of the deconstruction
\* response with ids that are all different, and no step before the next
\* buildStoryboard (or the reset of the session), be it a progressive update
\* or the final one, after a success or after a failure, changes the sequence
\* of its scene ids.
C21_SceneOrder ==
    [][/\ (last'.op = "settleDeconstructStory" /\ Len(last'.response) > 0) =>
            /\ SceneSummaries(scenes') = SceneSummaries(last'.response)
            /\ \A j, k \in 1..Len(scenes') : scenes'[j].id = scenes'[k].id => j = k
       /\ last'.op \notin C21_ReplacingOps =>
            /\ SceneIds(scenes') = SceneIds(scenes)
            /\ SceneSummaries(scenes') = SceneSummaries(scenes)]_vars

\* C21 witness: the loop of the phase machine has ended over three scenes, not
\* all alike, of which the second failed
C21_Witness ==
    /\ app = "phase"
    /\ last.op = "settleSceneImage"
    /\ currentPhase = "COMPLETE"
    /\ Len(scenes) = 3
    /\ scenes[1].sceneSummary # scenes[2].sceneSummary
    /\ Truthy(scenes[1].imageUrl) /\ Truthy(scenes[2].imageError) /\ Truthy(scenes[3].imageUrl)

\* C21 witness: the same in the wizard
C21_WitnessWizard ==
    /\ app = "wizard"
    /\ last.op = "settleSceneImage"
    /\ operationStatus = "SUCCESS"
    /\ Len(scenes) = 3
    /\ scenes[1].sceneSummary # scenes[2].sceneSummary
    /\ Truthy(scenes[1].imageUrl) /\ Truthy(scenes[2].imageError) /\ Truthy(scenes[3].imageUrl)

\* the scene has an image and no error
HasImage(scene) == Truthy(scene.imageUrl) /\ ~Truthy(scene.imageError)

\* the scene has a non-empty error and no image
HasImageError(scene) == Truthy(scene.imageError) /\ ~Truthy(scene.imageUrl)

\* C22: when a generateSceneImage call settles, the scene it was issued for
\* gets an imageUrl and no imageError if it returned, a non-empty imageError
\* and no imageUrl if it raised, and every other scene is left as it was; when
\* that call was the last of the loop, every scene has the one or the other
\* and the phase is COMPLETE (the wizard's status SUCCESS), not ERROR.
C22_PartialFailureIsolated ==
    [][(app \in {"phase", "wizard"} /\ last'.op = "settleSceneImage") =>
        /\ \E k \in 1..Len(scenes') : scenes'[k].id = last'.arg
        /\ Len(scenes') = Len(scenes)
        /\ \A k \in 1..Len(scenes') :
                IF scenes'[k].id = last'.arg
                THEN IF last'.raised THEN HasImageError(scenes'[k]) ELSE HasImage(scenes'[k])
                ELSE scenes'[k] = scenes[k]
        /\ Len(tasks') < Len(tasks) =>
                /\ \A k \in 1..Len(scenes') : HasImage(scenes'[k]) \/ HasImageError(scenes'[k])
                /\ app = "phase" => currentPhase' = "COMPLETE"
                /\ app = "wizard" => operationStatus' = "SUCCESS"]_vars

\* C22 witness: the loop of the phase machine has ended over three scenes of
\* which the first and the last failed
C22_Witness ==
    /\ app = "phase"
    /\ last.op = "settleSceneImage" /\ last.raised
    /\ currentPhase = "COMPLETE"
    /\ Len(scenes) = 3
    /\ HasImageError(scenes[1]) /\ HasImage(scenes[2]) /\ HasImageError(scenes[3])

\* C22 witness: the loop of the wizard has ended over scenes that all failed
C22_WitnessWizard ==
    /\ app = "wizard"
    /\ last.op = "settleSceneImage"
    /\ operationStatus = "SUCCESS"
    /\ Len(scenes) >= 2
    /\ \A k \in 1..Len(scenes) : HasImageError(scenes[k])

\* the phases of a buildStoryboard in progress
C23_Building == app = "phase" /\ currentPhase \in {"DECONSTRUCTING_STORY", "GENERATING_SCENE_IMAGES"}

\* the steps of the user in the phase machine
C23_UserOps ==
    {"setStoryText", "addCharacter", "updateCharacter", "removeCharacter", "approveCharacterDesign",
     "extractOrConfirmCharacters", "generateAllCharacterDesigns", "generateSingleCharacterDesign",
     "generateVisualStory"}

\* C23: in the phase machine, every call settling eventually, a buildStoryboard
\* that passed the gate eventually leaves DECONSTRUCTING_STORY and
\* GENERATING_SCENE_IMAGES; when the deconstruction returned at least one
\* scene it ends in COMPLETE, and only a step of the user leaves COMPLETE.
C23_BuildStoryboardTerminates ==
    /\ C23_Building ~> ~C23_Building
    /\ (app = "phase" /\ last.op = "settleDeconstructStory" /\ Len(last.response) > 0)
            ~> (currentPhase = "COMPLETE" /\ last.op = "settleSceneImage")
    /\ [][(app = "phase" /\ currentPhase = "COMPLETE" /\ currentPhase' # "COMPLETE")
            => last'.op \in C23_UserOps]_vars
    /\ [][(C23_Building /\ ~C23_Building') => currentPhase' \in {"COMPLETE", "ERROR", "AWAITING_STORY_INPUT"}]_vars

\* C23 witness: a storyboard of two scenes is complete and no call is in flight
C23_Witness ==
    /\ app = "phase"
    /\ currentPhase = "COMPLETE"
    /\ last.op = "settleSceneImage"
    /\ Len(scenes) = 2
    /\ tasks = <<>>

\* C24: in the first iteration, once the last scene has been processed and
\* handleGenerateVisualStory has run to its end, finally block included, the
\* phase is COMPLETE.
C24_FirstEndsComplete ==
    (app = "first" /\ last.op = "settleSceneImage" /\ Len(tasks) < last.ntasks)
        => currentPhase = "COMPLETE"

\* the ids of the scenes whose image call has not settled yet: those the
\* image loop in flight has not passed
C25_UnsettledIds ==
    UNION {{tasks[t].initialScenes[k].id : k \in tasks[t].i..Len(tasks[t].initialScenes)} :
                t \in {u \in 1..Len(tasks) : tasks[u].kind = "sceneImages"}}

\* the storyboard is complete
C25_Complete ==
    \/ app = "phase" /\ currentPhase = "COMPLETE"
    \/ app = "wizard" /\ operationStatus = "SUCCESS"

\* C25: no scene has both imageUrl and imageError; a scene whose image call
\* has not settled yet has neither; and when the storyboard is complete every
\* scene has exactly one of the two.
C25_ImageSubState ==
    app \in {"phase", "wizard"} =>
        \A k \in 1..Len(scenes) :
            /\ ~(Truthy(scenes[k].imageUrl) /\ Truthy(scenes[k].imageError))
            /\ scenes[k].id \in C25_UnsettledIds =>
                    (~Truthy(scenes[k].imageUrl) /\ ~Truthy(scenes[k].imageError))
            /\ C25_Complete => (Truthy(scenes[k].imageUrl) \/ Truthy(scenes[k].imageError))

\* C25 witness: in the wizard the image of the first of three scenes has
\* failed and the calls of the other two have not settled
C25_Witness ==
    /\ app = "wizard"
    /\ Len(scenes) = 3
    /\ HasImageError(scenes[1])
    /\ {scenes[2].id, scenes[3].id} \subseteq C25_UnsettledIds

\* C25 witness: a complete storyboard of the phase machine with an image and
\* a failure
C25_WitnessComplete ==
    /\ app = "phase"
    /\ C25_Complete
    /\ Len(scenes) = 2
    /\ HasImage(scenes[1]) /\ HasImageError(scenes[2])
    /\ last.op # "settleSceneImage"

\* the character of the registry chars that has the id of c
SameId(chars, c) == chars[CHOOSE k \in 1..Len(chars) : chars[k].id = c.id]

\* a text field of the character differs between c and d
TextDiffers(c, d) == c.name # d.name \/ c.appearance # d.appearance

\* C26: a character enters the registry with isAiExtracted set exactly when
\* the extraction creates it; a character whose flag is not set never has it
\* set again; and the flag of an extracted character is cleared by the edit of
\* one of its text fields and by nothing else.
C26_Provenance ==
    [][\A k \in 1..Len(characters') :
        IF characters'[k].id \in Ids(characters)
        THEN /\ ~SameId(characters, characters'[k]).isAiExtracted => ~characters'[k].isAiExtracted
             /\ TextDiffers(SameId(characters, characters'[k]), characters'[k])
                    => ~characters'[k].isAiExtracted
             /\ (SameId(characters, characters'[k]).isAiExtracted /\ ~characters'[k].isAiExtracted)
                    => /\ last'.op = "updateCharacter" /\ last'.arg = characters'[k].id
                       /\ TextDiffers(SameId(characters, characters'[k]), characters'[k])
        ELSE characters'[k].isAiExtracted <=> last'.op = "settleExtractCharacters"]_vars

\* C26 witness: of two extracted characters the user has just edited one,
\* whose flag is cleared, while the other keeps it
C26_Witness ==
    /\ last.op = "updateCharacter"
    /\ Len(characters) = 2
    /\ \E j, k \in 1..2 :
        /\ characters[j].id = last.arg /\ ~characters[j].isAiExtracted /\ characters[j].name = "Arin"
        /\ characters[k].isAiExtracted

\* C26 witness: a character added by hand has a design and is not flagged
C26_WitnessManual ==
    /\ Len(characters) = 1
    /\ ~characters[1].isAiExtracted
    /\ Truthy(characters[1].generatedDesignUrl)
    /\ last.op \in {"settleDesignOfSingle", "settleDesignOfAll", "endGenerateAllCharacterDesigns"}

(***************************************************************************)
(* The reference images of a scene, from registries and scenes with more   *)
(* names and image types than the runs above produce.                      *)
(***************************************************************************)
MaxRefCharacters == 2
MaxRefNames == 2

\* the data URLs generateCharacterDesign returns: data:${mimeType};base64,${bytes}
\* for an image mime type and non-empty bytes
DesignUrlsWide == DesignUrls \cup {"data:image/png;base64,YYYY"}

ReferenceNames == {"Arin", "Bela", " "}

\* registries at the approval step: each character approved or not, at
\* least one of them approved
ReferenceRegistries ==
    {chars \in UNION {[1..n -> [name : ReferenceNames, url : DesignUrlsWide \cup {Undefined}]] :
                            n \in 1..MaxRefCharacters} :
        \E k \in 1..Len(chars) : chars[k].url # Undefined}

ReferenceCharacters(chars) ==
    [k \in 1..Len(chars) |->
        [Phase_NewCharacter(k) EXCEPT !.name = chars[k].name, !.approvedDesignUrl = chars[k].url]]

\* what deconstructStoryAndCreatePrompts resolves to: one scene with up to
\* MaxRefNames names, or an error
ReferenceOutcomes ==
    Returned({<<[sceneSummary |-> "A", charactersInScene |-> names]>> :
                    names \in BoundedSeq(ReferenceNames, MaxRefNames)}) \cup Raised

Reference_Init ==
    /\ app \in {"phase", "wizard"}
    /\ storyText = "Once"
    /\ \E chars \in ReferenceRegistries :
        /\ characters = ReferenceCharacters(chars)
        /\ idCounter = Len(chars) + 1
    /\ scenes = <<>>
    /\ error = Null
    /\ IF app = "phase"
       THEN /\ currentPhase = "AWAITING_CHARACTER_DESIGN_APPROVAL"
            /\ userHasInteractedWithChars = TRUE
            /\ currentView = "none"
            /\ operationStatus = "none"
       ELSE /\ currentPhase = "none"
            /\ userHasInteractedWithChars = FALSE
            /\ currentView = "characterDesignReview"
            /\ operationStatus = "IDLE"
    /\ tasks = <<>>
    /\ isLoadingStory = FALSE
    /\ isLoadingImages = FALSE
    /\ apiKey = TRUE
    /\ sceneIdCounter = 1
    /\ last = [op |-> "init", arg |-> 0, currentPhase |-> currentPhase, characters |-> characters,
               scenes |-> <<>>, storyText |-> "Once", ntasks |-> 0,
               operationStatus |-> operationStatus, currentView |-> currentView, error |-> Null,
               sel |-> {}, response |-> <<>>, raised |-> FALSE, references |-> <<>>, forced |-> 0]

Reference_Next ==
    \/ Phase_handleGenerateVisualStory(TRUE)
    \/ Phase_DeconstructionSettles(ReferenceOutcomes, MaxSceneIds)
    \/ Phase_SettleSceneImage
    \/ Wizard_handleGenerateStoryboard(TRUE)
    \/ Wizard_DeconstructionSettles(ReferenceOutcomes, MaxSceneIds)
    \/ Wizard_SettleSceneImage

SpecReferenceImages == Reference_Init /\ [][Reference_Next]_vars

\* the character of chars that a name of a scene stands for: the first one
\* with exactly that name and an approved design
HasApproved(chars, name) ==
    \E k \in 1..Len(chars) : chars[k].name = name /\ Truthy(chars[k].approvedDesignUrl)
FirstApproved(chars, name) ==
    chars[CHOOSE k \in 1..Len(chars) :
            /\ chars[k].name = name /\ Truthy(chars[k].approvedDesignUrl)
            /\ \A j \in 1..(k - 1) : ~(chars[j].name = name /\ Truthy(chars[j].approvedDesignUrl))]

\* the scene a generateSceneImage call that has just settled was issued for
SettledScene == last.scenes[CHOOSE k \in 1..Len(last.scenes) : last.scenes[k].id = last.arg]

\* C27: the reference list passed to generateSceneImage for a scene has, in
\* the order of charactersInScene, one entry for each name that some
\* character with an approved design has, taken from the first such
\* character, and the entry's mime type and payload are the ones its
\* approved data URL is built from; a name without such a character has
\* no entry.
C27_ReferenceResolution ==
    (app \in {"phase", "wizard"} /\ last.op = "settleSceneImage") =>
        LET names == SelectSeq(SettledScene.charactersInScene,
                               LAMBDA n : HasApproved(last.characters, n))
        IN  /\ Len(last.references) = Len(names)
            /\ \A j \in 1..Len(names) :
                    FirstApproved(last.characters, names[j]).approvedDesignUrl
                        = "data:" \o last.references[j].mimeType
                                 \o ";base64," \o last.references[j].data

\* C27 witness: the scene names Arin, whose design data:image/jpeg;base64,XXXX
\* is approved, and the call got the one entry (image/jpeg, XXXX)
C27_Witness ==
    /\ last.op = "settleSceneImage"
    /\ SettledScene.charactersInScene = <<"Arin">>
    /\ Len(last.characters) = 1
    /\ last.characters[1].name = "Arin"
    /\ last.characters[1].approvedDesignUrl = "data:image/jpeg;base64,XXXX"
    /\ last.references = <<[mimeType |-> "image/jpeg", data |-> "XXXX"]>>

\* C27 witness: two characters are named Arin and the scene names Bela, whom
\* no character stands for, and then Arin; the one entry is the first Arin's
C27_WitnessFirstMatch ==
    /\ last.op = "settleSceneImage"
    /\ SettledScene.charactersInScene = <<"Bela", "Arin">>
    /\ Len(last.characters) = 2
    /\ last.characters[1].name = "Arin" /\ last.characters[2].name = "Arin"
    /\ last.characters[1].approvedDesignUrl = "data:image/png;base64,YYYY"
    /\ last.characters[2].approvedDesignUrl = "data:image/jpeg;base64,XXXX"
    /\ last.references = <<[mimeType |-> "image/png", data |-> "YYYY"]>>

\* C28: in the wizard no step changes a text field of a character whose
\* approved design stays as it is.
C28_ApprovedTextImmutable ==
    [][app = "wizard" =>
        \A j \in 1..Len(characters), k \in 1..Len(characters') :
            (/\ characters'[k].id = characters[j].id
             /\ Truthy(characters[j].approvedDesignUrl)
             /\ characters'[k].approvedDesignUrl = characters[j].approvedDesignUrl)
                => ~TextDiffers(characters[j], characters'[k])]_vars

\* C29: in the wizard every step other than the removal of a character and
\* the restart keeps every character of the registry, with its approved
\* design when it has one.
C29_RegistryKept ==
    [][(app = "wizard" /\ last'.op \notin {"removeCharacter", "resetToWelcome"}) =>
        \A j \in 1..Len(characters) :
            /\ characters[j].id \in Ids(characters')
            /\ Truthy(characters[j].approvedDesignUrl) =>
                    SameId(characters', characters[j]).approvedDesignUrl
                        = characters[j].approvedDesignUrl]_vars

\* the calls an invocation still has to see settle: the one in flight and
\* the ones its loop has not issued yet
CallsAhead(task) ==
    CASE task.kind = "designAll" -> Len(task.queue) - task.i + 1
      [] task.kind = "sceneImages" -> Len(task.initialScenes) - task.i + 1
      [] OTHER -> 1
RECURSIVE AllCallsAhead(_)
AllCallsAhead(ts) == IF ts = <<>> THEN 0 ELSE CallsAhead(Head(ts)) + AllCallsAhead(Tail(ts))

\* C30: in the phase machine generateAllCharacterDesigns sets out one call
\* for each selected character and buildStoryboard one deconstructStory
\* call; the deconstruction that settles sets out one generateSceneImage
\* call for each scene it materializes; and every design or scene call that
\* settles, with an image or with an error, takes exactly one call off what
\* is ahead, so that no call is issued a second time.
C30_NoAutomaticRetry ==
    [][app = "phase" =>
        /\ last'.op = "generateAllCharacterDesigns" =>
                AllCallsAhead(tasks') - AllCallsAhead(tasks)
                    = IF Len(tasks') > Len(tasks)
                      THEN Cardinality(Ids(Phase_charsToDesign(characters)))
                      ELSE 0
        /\ last'.op = "generateVisualStory" =>
                AllCallsAhead(tasks') - AllCallsAhead(tasks)
                    = IF Len(tasks') > Len(tasks) THEN 1 ELSE 0
        /\ last'.op = "settleDeconstructStory" =>
                AllCallsAhead(tasks') - AllCallsAhead(tasks)
                    = (IF Len(tasks') = Len(tasks) THEN Len(scenes') ELSE 0) - 1
        /\ last'.op \in {"settleDesignOfAll", "endGenerateAllCharacterDesigns", "settleSceneImage"} =>
                AllCallsAhead(tasks') = AllCallsAhead(tasks) - 1]_vars

\* C30 witness: of a batch of two the first design call has failed and the
\* loop is at the second character, with one call ahead
C30_Witness ==
    /\ app = "phase"
    /\ last.op = "settleDesignOfAll" /\ last.raised
    /\ \E t \in 1..Len(tasks) :
        /\ tasks[t].kind = "designAll" /\ Len(tasks[t].queue) = 2 /\ tasks[t].i = 2
        /\ tasks[t].queue[1].id = last.arg
    /\ \E k \in 1..Len(characters) : characters[k].id = last.arg /\ Truthy(characters[k].designError)

\* C30 witness: of two scenes the first image call has failed and the loop
\* is at the second scene
C30_WitnessScenes ==
    /\ app = "phase"
    /\ last.op = "settleSceneImage" /\ last.raised
    /\ \E t \in 1..Len(tasks) :
        /\ tasks[t].kind = "sceneImages" /\ Len(tasks[t].initialScenes) = 2 /\ tasks[t].i = 2
        /\ tasks[t].initialScenes[1].id = last.arg

\* the scene has a published result, an image or an error
HasResult(scene) == Truthy(scene.imageUrl) \/ Truthy(scene.imageError)

\* the positions of the timeline before the scene the loop of task is at
BeforeCurrent(task) ==
    {k \in 1..Len(scenes) :
        \E m \in (k + 1)..Len(scenes) : scenes[m].id = task.initialScenes[task.i].id}

\* C31: while the generateSceneImage call of a scene is in flight, every
\* scene before it in the timeline has a published result; and in every
\* state the scenes that have a result form a prefix of the timeline.
C31_SequentialInOrder ==
    /\ \A t \in 1..Len(tasks) :
            tasks[t].kind = "sceneImages" =>
                \A k \in BeforeCurrent(tasks[t]) : HasResult(scenes[k])
    /\ \A k \in 1..Len(scenes) :
            HasResult(scenes[k]) => \A j \in 1..(k - 1) : HasResult(scenes[j])

\* C31 witness: of three scenes the first two have a result, one of them an
\* error, and the call of the third is in flight
C31_Witness ==
    /\ Len(scenes) = 3
    /\ HasImageError(scenes[1]) /\ HasImage(scenes[2]) /\ ~HasResult(scenes[3])
    /\ \E t \in 1..Len(tasks) :
        /\ tasks[t].kind = "sceneImages" /\ tasks[t].i = 3
        /\ tasks[t].initialScenes[3].id = scenes[3].id

\* C32: the step in which the generateSceneImage call of a scene settles
\* keeps the length and the order of the timeline, leaves every other scene
\* as it is and keeps the descriptors of the scene itself; this holds for
\* the progressive update and for the whole-list update after the last scene.
C32_OnlyImageFieldsChange ==
    [][(app \in {"phase", "wizard"} /\ last'.op = "settleSceneImage") =>
        /\ Len(scenes') = Len(scenes)
        /\ \A k \in 1..Len(scenes) :
            IF scenes[k].id = last'.arg
            THEN /\ scenes'[k].id = scenes[k].id
                 /\ scenes'[k].sceneSummary = scenes[k].sceneSummary
                 /\ scenes'[k].charactersInScene = scenes[k].charactersInScene
            ELSE scenes'[k] = scenes[k]]_vars

\* C32 witness: the phase machine has made its whole-list update after the
\* third of three scenes, whose first scene had failed
C32_Witness ==
    /\ app = "phase"
    /\ last.op = "settleSceneImage"
    /\ currentPhase = "COMPLETE"
    /\ Len(scenes) = 3
    /\ last.arg = scenes[3].id
    /\ HasImageError(scenes[1]) /\ HasImage(scenes[2]) /\ HasImage(scenes[3])
    /\ scenes[2].charactersInScene = <<"Arin">>

\* C32 witness: the wizard has published the result of the second of three
\* scenes
C32_WitnessWizard ==
    /\ app = "wizard"
    /\ last.op = "settleSceneImage"
    /\ Len(scenes) = 3
    /\ last.arg = scenes[2].id
    /\ HasImage(scenes[1]) /\ HasImageError(scenes[2]) /\ ~HasResult(scenes[3])

\* C33: in the phase machine a step that enters GENERATING_SCENE_IMAGES
\* leaves DECONSTRUCTING_STORY, and a step that enters COMPLETE leaves
\* GENERATING_SCENE_IMAGES.
C33_PhaseOrdering ==
    [][app = "phase" =>
        /\ (currentPhase' = "GENERATING_SCENE_IMAGES" /\ currentPhase # "GENERATING_SCENE_IMAGES")
                => currentPhase = "DECONSTRUCTING_STORY"
        /\ (currentPhase' = "COMPLETE" /\ currentPhase # "COMPLETE")
                => currentPhase = "GENERATING_SCENE_IMAGES"]_vars

\* C33 witness: the deconstruction has settled with scenes, the phase has
\* gone from DECONSTRUCTING_STORY to GENERATING_SCENE_IMAGES, and the
\* registry holds an approved character
C33_Witness ==
    /\ app = "phase"
    /\ last.op = "settleDeconstructStory"
    /\ last.currentPhase = "DECONSTRUCTING_STORY"
    /\ currentPhase = "GENERATING_SCENE_IMAGES"
    /\ \E k \in 1..Len(characters) : Truthy(characters[k].approvedDesignUrl)

\* C33 witness: the last scene call has settled and the phase has gone from
\* GENERATING_SCENE_IMAGES to COMPLETE
C33_WitnessComplete ==
    /\ app = "phase"
    /\ last.op = "settleSceneImage"
    /\ last.currentPhase = "GENERATING_SCENE_IMAGES"
    /\ currentPhase = "COMPLETE"
    /\ \E k \in 1..Len(characters) : Truthy(characters[k].approvedDesignUrl)

\* C34: in the phase machine no character has a generated and an approved
\* design at once, and no character that is loading has a generated design.
C34_DesignSubState ==
    app = "phase" =>
        \A k \in 1..Len(characters) :
            /\ ~(Truthy(characters[k].generatedDesignUrl) /\ Truthy(characters[k].approvedDesignUrl))
            /\ ~(characters[k].isDesignLoading /\ Truthy(characters[k].generatedDesignUrl))

\* C34 witness: the design of one character is approved and the other
\* character, whose design is generated again, is loading without a design
C34_Witness ==
    /\ app = "phase"
    /\ last.op = "generateSingleCharacterDesign"
    /\ Len(characters) = 2
    /\ \E j, k \in 1..2 :
        /\ Truthy(characters[j].approvedDesignUrl) /\ ~Truthy(characters[j].generatedDesignUrl)
        /\ characters[k].id = last.arg
        /\ Truthy(last.characters[k].generatedDesignUrl)
        /\ characters[k].isDesignLoading /\ ~Truthy(characters[k].generatedDesignUrl)

\* isLoadingActivePhase: the phases that show the blocking overlay
LoadingPhases == {"EXTRACTING_CHARACTERS", "GENERATING_CHARACTER_DESIGNS",
                  "DECONSTRUCTING_STORY", "GENERATING_SCENE_IMAGES"}

\* C35: in the phase machine, while a call is in flight or a character is
\* loading, the phase is one of the phases that show the overlay.
C35_BusyOnlyInLoadingPhases ==
    (app = "phase" /\ (tasks # <<>> \/ Some(characters, LAMBDA c : c.isDesignLoading)))
        => currentPhase \in LoadingPhases

\* C35 witness: the batch has two characters, the call of the first has
\* settled and the second one is loading with its call in flight
C35_Witness ==
    /\ app = "phase"
    /\ currentPhase = "GENERATING_CHARACTER_DESIGNS"
    /\ last.op = "settleDesignOfAll"
    /\ Len(tasks) = 1 /\ tasks[1].kind = "designAll" /\ tasks[1].i = 2
    /\ Len(characters) = 2
    /\ ~characters[1].isDesignLoading /\ characters[2].isDesignLoading

\* C35 witness: the single design call has settled, the phase awaits the
\* approval, no call is in flight and no character is loading
C35_WitnessIdle ==
    /\ app = "phase"
    /\ currentPhase = "AWAITING_CHARACTER_DESIGN_APPROVAL"
    /\ last.op = "settleDesignOfSingle"
    /\ tasks = <<>>
    /\ Every(characters, LAMBDA c : ~c.isDesignLoading)

\* C36: the registry never holds more than MAX_CHARACTERS characters.
C36_RegistryCap == Len(characters) <= MAX_CHARACTERS

\* C36 witness: addCharacter has been invoked with a registry of
\* MAX_CHARACTERS characters, the last of them added by hand, and has
\* added nothing
C36_Witness ==
    /\ last.op = "addCharacter"
    /\ Len(characters) = MAX_CHARACTERS
    /\ idCounter = MAX_CHARACTERS + 1
    /\ ~characters[MAX_CHARACTERS].isAiExtracted
    /\ characters[1].isAiExtracted

\* submitStory of the phase machine has just been invoked with a story that
\* is not blank and a registry of at least one character
C37_InvokedOnRegistry ==
    /\ app = "phase"
    /\ last.op = "extractOrConfirmCharacters"
    /\ Trim(last.storyText) # ""
    /\ Len(last.characters) > 0

\* C37 as stated: submitStory invoked with a story and a registry of at least
\* one character issues no call, leaves the registry unchanged and moves the
\* phase to AWAITING_CHARACTER_DESIGN_APPROVAL, from whatever phase
C37_ConfirmationProceeds ==
    C37_InvokedOnRegistry =>
        /\ Len(tasks) = last.ntasks
        /\ characters = last.characters
        /\ currentPhase = "AWAITING_CHARACTER_DESIGN_APPROVAL"

\* C37: submitStory invoked with a story and a registry of at least one
\* character issues no call and leaves the registry unchanged; in phase ERROR
\* it changes nothing, from every other phase it clears the error and moves
\* the phase to AWAITING_CHARACTER_DESIGN_APPROVAL
C37_ConfirmationOutsideError ==
    C37_InvokedOnRegistry =>
        /\ Len(tasks) = last.ntasks
        /\ characters = last.characters
        /\ last.currentPhase = "ERROR" =>
                /\ currentPhase = "ERROR"
                /\ error = last.error
        /\ last.currentPhase # "ERROR" =>
                /\ currentPhase = "AWAITING_CHARACTER_DESIGN_APPROVAL"
                /\ error = Null

\* C37 witness: submitStory invoked on extracted characters awaiting
\* confirmation has moved the phase on
C37_Witness ==
    /\ C37_InvokedOnRegistry
    /\ last.currentPhase = "AWAITING_USER_CHARACTER_CONFIRMATION"
    /\ currentPhase = "AWAITING_CHARACTER_DESIGN_APPROVAL"
    /\ last.forced = 0

\* C37 witness: submitStory invoked in phase ERROR with a story and a
\* registry of at least one character
C37_WitnessError ==
    /\ C37_InvokedOnRegistry
    /\ last.currentPhase = "ERROR"
    /\ currentPhase = "ERROR"

\* a design call has just settled for a character that the registry had lost
\* while the call was in flight or waiting for its turn
C38_SettledForRemoved ==
    /\ app = "phase"
    /\ last.op \in {"settleDesignOfAll", "endGenerateAllCharacterDesigns", "settleDesignOfSingle"}
    /\ ~Some(last.characters, LAMBDA c : c.id = last.arg)

\* C38: a design call that settles, with a result or an error, for a
\* character removed in the meantime leaves the registry as it was: the
\* character is not put back and no other character changes.
C38_RemovedStaysRemoved ==
    C38_SettledForRemoved => characters = last.characters

\* C38 witness: the call settled for a removed character while another
\* character was still in the registry
C38_Witness ==
    /\ C38_SettledForRemoved
    /\ last.op = "settleDesignOfSingle"
    /\ Len(characters) >= 1

\* C38 witness: the same in the loop of handleGenerateAllCharacterDesigns,
\* with a call that failed
C38_WitnessAll ==
    /\ C38_SettledForRemoved
    /\ last.op \in {"settleDesignOfAll", "endGenerateAllCharacterDesigns"}
    /\ last.raised

\* a call of the wizard has just settled on the welcome page: only
\* resetToWelcome leads back to that page and no handler issues a call from
\* it, so the call was issued before the last reset and the user has done
\* nothing since
C39_StaleSettled ==
    /\ app = "wizard"
    /\ last.op \in {"settleDesignOfAll", "endGenerateAllCharacterDesigns", "settleDesignOfSingle",
                     "settleDeconstructStory", "settleSceneImage"}
    /\ last.currentView = "welcome"

\* C39: after resetToWelcome, the completion of a design or storyboard call
\* issued before it leaves the characters and the scenes empty.
C39_StaleCompletionsChangeNothing ==
    C39_StaleSettled => (characters = <<>> /\ scenes = <<>>)

\* the part of C39 that holds: the completions of design calls and of scene
\* image calls issued before the reset leave characters and scenes empty
C39_StaleUpdatersChangeNothing ==
    (C39_StaleSettled /\ last.op # "settleDeconstructStory") =>
        (characters = <<>> /\ scenes = <<>>)

\* a design call issued before the reset has settled after it
C39_WitnessDesign ==
    /\ C39_StaleSettled
    /\ last.op \in {"settleDesignOfAll", "endGenerateAllCharacterDesigns", "settleDesignOfSingle"}

\* a scene image call issued before the reset has settled after it
C39_WitnessSceneImage ==
    /\ C39_StaleSettled
    /\ last.op = "settleSceneImage"

====
